---- MODULE Spec2Model ----
(***************************************************************************)
(* A model of golang.org/x/image/vector: the Rasterizer of vector.go, its  *)
(* path commands, the accumulation of signed areas into the coverage       *)
(* buffer, the integration of that buffer and the compositing of Draw.     *)
(*                                                                         *)
(* float32 values are modelled as fixed-point numbers.  A coordinate is an *)
(* integer number of 1/Unit pixels and a coverage value is an integer      *)
(* number of 1/AreaUnit of one pixel.  The path commands of the model take *)
(* only segments for which every float32 operation of the code is exact    *)
(* (ExactSeg), so that the fixed-point result is the code's result.        *)
(***************************************************************************)
EXTENDS Integers, Sequences, FiniteSets, TLC

\* ----------------------------------------------------------------- bounds

\* The largest width and height given to NewRasterizer and Reset.
MaxDim == 2

\* The largest number of LineTo and ClosePath calls between two Resets.
MaxSegs == 1

\* The largest number of Reset calls of a run.
MaxResets == 1

\* The largest number of pixels of a Rasterizer whose coverage buffer is
\* taken from CoverageValues.
MaxPixels == 4

\* The width and height of the Rasterizer that is given two rectangular
\* contours, or one path.
ContourW == 3
ContourH == 2

\* --------------------------------------------------------- representation

\* f32.Vec2 coordinates: one pixel is Unit steps.
Unit == 4

\* float32 coverage values: full coverage of one pixel is AreaUnit.
AreaUnit == 4096

\* draw.Op
Over == "Over"
Src == "Src"

Min2(x, y) == IF x < y THEN x ELSE y
Max2(x, y) == IF x < y THEN y ELSE x
Abs(x) == IF x < 0 THEN -x ELSE x

\* math.Floor and math.Ceil of the rational n/d (d > 0), as floatingFloor and
\* floatingCeil take them.
floatingFloor(n, d) == n \div d
floatingCeil(n, d) == -((-n) \div d)

IsPow2(n) == n \in {1, 2, 4, 8, 16, 32, 64}

\* The segments on which the float32 arithmetic of floatingLineTo is exact:
\* the segment is axis parallel, or its slope and the inverse of it are
\* powers of two and each row's share of its height is one: it runs from
\* one pixel boundary to another.
ExactSeg(a, b) ==
    \/ a[1] = b[1]
    \/ a[2] = b[2]
    \/ /\ IsPow2(Abs(a[1] - b[1])) /\ IsPow2(Abs(a[2] - b[2]))
       /\ a[2] % Unit = 0 /\ b[2] % Unit = 0

\* clamp that sends a negative index to the end of the row.
clampToWidth(i, width) ==
    IF i < 0 THEN width
    ELSE IF i < width THEN i
    ELSE width

\* clamp with its upper bound one too low: an index beyond the row stays
\* in the row's last pixel.
clampInside(i, width) ==
    IF i < 0 THEN 0
    ELSE IF i < width THEN i
    ELSE width - 1

\* clamp without its upper bound: a column beyond the row passes.
clampNoUpper(i, width) ==
    IF i < 0 THEN 0
    ELSE i

\* vector.go: clamp
clamp(i, width) ==
    IF i < 0 THEN 0
    ELSE IF i < width THEN i
    ELSE width

Zeros(n) == [i \in 1..n |-> 0]

\* ------------------------------------------------------- area accumulation

\* The test "i < uint(len(buf))" that precedes every "buf[i] += ..." of
\* floatingLineTo, for a slice buf of n entries.
InBuf(i, n) == i < n

\* buf[i] += amt, on the slice z.bufF32[base:] of a buffer of ln entries,
\* for every <<i, amt>> of adds that passes the test.
RECURSIVE AddAll(_, _, _, _)
AddAll(buf, ln, base, adds) ==
    IF adds = <<>> THEN buf
    ELSE LET i == Head(adds)[1]
             amt == Head(adds)[2]
             nb == IF InBuf(i, ln - base)
                   THEN [buf EXCEPT ![base + i + 1] = @ + amt]
                   ELSE buf
         IN AddAll(nb, ln, base, Tail(adds))

\* The additions floatingLineTo makes in one row.  X and XNext are the
\* numerators of x and xNext over the denominator XD, dyn the row's share of
\* the segment's height in 1/Unit, dir the direction.  Amounts are in
\* 1/AreaUnit.
RowAdds(X, XNext, XD, dyn, dir, width) ==
    LET X0 == Min2(X, XNext)
        X1 == Max2(X, XNext)
        x0i == floatingFloor(X0, XD)
        x1i == floatingCeil(X1, XD)
        dD == (dir * dyn * AreaUnit) \div Unit
    IN IF x1i <= x0i + 1
       THEN LET xmfN == X + XNext - 2 * x0i * XD
                dxmf == (dir * dyn * xmfN * AreaUnit) \div (Unit * 2 * XD)
            IN << <<clamp(x0i, width), dD - dxmf>>,
                  <<clamp(x0i + 1, width), dxmf>> >>
       ELSE LET sn == X1 - X0
                den == 2 * Unit * sn * XD
                ToD(num) == (dir * dyn * num * AreaUnit) \div den
                one == 2 * sn * XD
                x0fN == X0 - x0i * XD
                u == XD - x0fN
                v == X1 - (x1i - 1) * XD
                a0 == u * u
                am == v * v
                a1 == (3 * XD - 2 * x0fN) * XD
                oneOverS == 2 * XD * XD
                a2 == a1 + oneOverS * (x1i - x0i - 3)
                mid == IF x1i = x0i + 2
                       THEN << <<clamp(x0i + 1, width), ToD(one - a0 - am)>> >>
                       ELSE << <<clamp(x0i + 1, width), ToD(a1 - a0)>> >>
                            \o [k \in 1..(x1i - x0i - 3) |->
                                  <<clamp(x0i + 1 + k, width), ToD(oneOverS)>>]
                            \o << <<clamp(x1i - 1, width), ToD(one - a2 - am)>> >>
            IN << <<clamp(x0i, width), ToD(a0)>> >>
               \o mid
               \o << <<clamp(x1i, width), ToD(am)>> >>

\* "yMax := floatingCeil(by); if yMax > int32(z.size.Y) { yMax = ... }":
\* the row after the last one floatingLineTo visits for a segment that
\* ends at b.
LineYMax(sz, b) == Min2(floatingCeil(b[2], Unit), sz[2])

\* The row loop of floatingLineTo, from row y to row yMax-1.
RECURSIVE LineRows(_, _, _, _, _, _, _, _, _, _)
LineRows(buf, ln, width, a, b, dir, XD, X, y, yMax) ==
    IF y >= yMax THEN buf
    ELSE LET dyn == Min2((y + 1) * Unit, b[2]) - Max2(y * Unit, a[2])
             XNext == X + dyn * (b[1] - a[1])
         IN IF y < 0
            THEN LineRows(buf, ln, width, a, b, dir, XD, XNext, y + 1, yMax)
            ELSE LineRows(
                   AddAll(buf, ln, y * width,
                          RowAdds(X, XNext, XD, dyn, dir, width)),
                   ln, width, a, b, dir, XD, XNext, y + 1, yMax)

\* floatingLineTo: the coverage buffer after the segment from p to q has been
\* accumulated into it.  sz is z.size.
floatingLineTo(buf, ln, sz, p, q) ==
    LET dir == IF p[2] > q[2] THEN -1 ELSE 1
        a == IF p[2] > q[2] THEN q ELSE p
        b == IF p[2] > q[2] THEN p ELSE q
        DY == b[2] - a[2]
    IN IF DY <= 0 THEN buf
       ELSE LineRows(buf, ln, sz[1], a, b, dir, Unit * DY, a[1] * DY,
                     floatingFloor(a[2], Unit),
                     LineYMax(sz, b))

\* The additions the row loop of floatingLineTo executes from row y to row
\* yMax-1, as <<yy, base, k>>: in row yy the slice z.bufF32[base:] was
\* taken, k passed the test and buf[k] was added to.
RECURSIVE RowWrites(_, _, _, _, _, _, _, _, _)
RowWrites(ln, width, a, b, dir, XD, X, y, yMax) ==
    IF y >= yMax THEN {}
    ELSE LET dyn == Min2((y + 1) * Unit, b[2]) - Max2(y * Unit, a[2])
             XNext == X + dyn * (b[1] - a[1])
             adds == RowAdds(X, XNext, XD, dyn, dir, width)
             rest == RowWrites(ln, width, a, b, dir, XD, XNext, y + 1, yMax)
         IN IF y < 0 THEN rest
            ELSE {<<y, y * width, adds[k][1]>> :
                     k \in {j \in 1..Len(adds) :
                               InBuf(adds[j][1], ln - y * width)}}
                 \cup rest

\* The additions floatingLineTo executes for the segment from p to q
LineWrites(ln, sz, p, q) ==
    LET a == IF p[2] > q[2] THEN q ELSE p
        b == IF p[2] > q[2] THEN p ELSE q
        DY == b[2] - a[2]
    IN IF DY <= 0 THEN {}
       ELSE RowWrites(ln, sz[1], a, b, 1, Unit * DY, a[1] * DY,
                      floatingFloor(a[2], Unit),
                      LineYMax(sz, b))

\* The slice expressions "buf := z.bufF32[y*width:]" floatingLineTo
\* evaluates for the segment from p to q, as their lower bounds y*width:
\* one for every row of its loop that is not skipped for y < 0.
LineSlices(sz, p, q) ==
    LET a == IF p[2] > q[2] THEN q ELSE p
        b == IF p[2] > q[2] THEN p ELSE q
    IN IF b[2] - a[2] <= 0 THEN {}
       ELSE {y * sz[1] :
               y \in Max2(floatingFloor(a[2], Unit), 0)
                        ..(LineYMax(sz, b) - 1)}

\* Whether floatingLineTo ends in a run-time panic on a buffer of ln
\* entries: a slice expression z.bufF32[low:] panics when low exceeds the
\* length, and an index expression buf[k] when k is not below the length
\* of buf.
floatingLineToPanics(ln, sz, p, q) ==
    \/ \E low \in LineSlices(sz, p, q) : low < 0 \/ low > ln
    \/ \E w \in LineWrites(ln, sz, p, q) : w[3] < 0 \/ w[3] >= ln - w[2]


\* ------------------------------------------------------------- integration

\* The running sum "acc += v" of the accumulate functions after the first i
\* entries of src.
RECURSIVE Acc(_, _)
Acc(src, i) == IF i = 0 THEN 0 ELSE Acc(src, i - 1) + src[i]

\* "a := acc; if a < 0 { a = -a }; if a > 1 { a = 1 }"
Coverage(src, i) == Min2(Abs(Acc(src, i)), AreaUnit)

\* uint32(almost65536 * a) for bits = 16 and uint8(almost256 * a) for
\* bits = 8, where a = k/AreaUnit: the float32 product lies strictly below
\* k * 2^bits / AreaUnit, by less than one, unless k = 0.
AlmostScale(k, bits) ==
    IF k = 0 THEN 0 ELSE (k * (2 ^ bits) - 1) \div AreaUnit

\* floatingAccumulateMask(dst, src), with len(dst) = len(src) = ln: the
\* first ln entries of dst are overwritten.
floatingAccumulateMask(dst, src, ln) ==
    [i \in 1..Len(dst) |->
        IF i <= ln THEN AlmostScale(Coverage(src, i), 16) ELSE dst[i]]

\* x*y as <<q, r>> with x*y = q*65535 + r, for x, y in 0..65535, computed
\* in pieces that fit 31 bits.
MulQR(x, y) ==
    LET p1 == (x \div 256) * y
        t == (p1 % 65535) * 256
        p3 == (x % 256) * y
        rr == (t % 65535) + (p3 % 65535)
    IN << (p1 \div 65535) * 256 + (t \div 65535) + (p3 \div 65535)
            + (rr \div 65535),
          rr % 65535 >>

\* (x1*y1 + x2*y2) / 0xffff in uint32 arithmetic; the sums the compositing
\* code forms from premultiplied colours stay below 2^32.
SumDiv(x1, y1, x2, y2) ==
    LET m1 == MulQR(x1, y1)
        m2 == MulQR(x2, y2)
    IN m1[1] + m2[1] + ((m1[2] + m2[2]) \div 65535)

\* x*y / 0xffff
MulDiv(x, y) == MulQR(x, y)[1]

\* floatingAccumulateOpSrc(dst.Pix, z.bufF32)
floatingAccumulateOpSrc(pix, src, ln) ==
    IF Len(pix) < ln THEN pix
    ELSE [i \in 1..Len(pix) |->
            IF i <= ln THEN AlmostScale(Coverage(src, i), 8) ELSE pix[i]]

\* floatingAccumulateOpOver(dst.Pix, z.bufF32)
floatingAccumulateOpOver(pix, src, ln) ==
    IF Len(pix) < ln THEN pix
    ELSE [i \in 1..Len(pix) |->
            IF i <= ln
            THEN LET dstA == pix[i] * 257
                     maskA == AlmostScale(Coverage(src, i), 16)
                     outA == MulDiv(dstA, 65535 - maskA) + maskA
                 IN outA \div 256
            ELSE pix[i]]

\* ------------------------------------------------------------------ images

\* image.Rectangle as <<Min.X, Min.Y, Max.X, Max.Y>>
RectDx(r) == r[3] - r[1]
RectDy(r) == r[4] - r[2]
InRect(x, y, r) == r[1] <= x /\ x < r[3] /\ r[2] <= y /\ y < r[4]

\* image.NewAlpha(r) with every pixel set to bg, as the tests fill it
NewAlpha(r, bg) ==
    [kind |-> "Alpha", rect |-> r, stride |-> RectDx(r),
     pix |-> [i \in 1..(RectDx(r) * RectDy(r)) |-> bg]]

\* image.NewAlpha(image.Rect(0, 0, pw, ph)).SubImage(r), for a non-empty r
\* inside the parent with r.Min = (0, 0): Pix and Stride are the parent's.
SubAlpha(pw, ph, r, bg) ==
    [kind |-> "Alpha", rect |-> r, stride |-> pw,
     pix |-> [i \in 1..(pw * ph) |-> bg]]

\* image.NewRGBA64(r) with every pixel set to the colour bg
NewRGBA64(r, bg) ==
    [kind |-> "RGBA64", rect |-> r, stride |-> RectDx(r),
     pix |-> [i \in 1..(RectDx(r) * RectDy(r)) |-> bg]]

PixOffset(img, x, y) == (y - img.rect[2]) * img.stride + (x - img.rect[1])

\* dst.At(x, y).RGBA()
At(img, x, y) ==
    IF ~InRect(x, y, img.rect) THEN <<0, 0, 0, 0>>
    ELSE LET v == img.pix[PixOffset(img, x, y) + 1]
         IN IF img.kind = "Alpha"
            THEN <<v * 257, v * 257, v * 257, v * 257>>
            ELSE v

\* dst.Set(x, y, c) for a color.RGBA64 c
Set(img, x, y, c) ==
    IF ~InRect(x, y, img.rect) THEN img
    ELSE [img EXCEPT !.pix[PixOffset(img, x, y) + 1] =
             IF img.kind = "Alpha" THEN c[4] \div 256 ELSE c]

\* ------------------------------------------------------------- compositing

\* x1*y1 + x2*y2 as <<q, r>>, the sum being q*65535 + r; 2^32 is
\* 65537*65535 + 1.
SumQR(x1, y1, x2, y2) ==
    LET m1 == MulQR(x1, y1)
        m2 == MulQR(x2, y2)
    IN << m1[1] + m2[1] + ((m1[2] + m2[2]) \div 65535),
          (m1[2] + m2[2]) % 65535 >>

\* The sums "dr*a + sr*ma", ... of rasterizeOpOver, one for each channel
OverSums(s, d, ma) ==
    LET a == 65535 - MulDiv(s[4], ma)
    IN [c \in 1..4 |-> SumQR(d[c], a, s[c], ma)]

\* The body of rasterizeOpOver with the destination kept in full.
OverPixelKeepsDst(s, d, ma) ==
    << SumDiv(d[1], 65535, s[1], ma), SumDiv(d[2], 65535, s[2], ma),
       SumDiv(d[3], 65535, s[3], ma), SumDiv(d[4], 65535, s[4], ma) >>

\* The body of the loops of rasterizeOpOver for one pixel: the colour given
\* to dst.Set.  s is the source colour, d the destination's, ma the mask.
OverPixel(s, d, ma) ==
    LET a == 65535 - MulDiv(s[4], ma)
    IN << SumDiv(d[1], a, s[1], ma), SumDiv(d[2], a, s[2], ma),
          SumDiv(d[3], a, s[3], ma), SumDiv(d[4], a, s[4], ma) >>

\* The body of the loops of rasterizeOpSrc without the mask: the source
\* colour is copied.
SrcPixelNoMask(s, ma) == s

\* The body of the loops of rasterizeOpSrc for one pixel.
SrcPixel(s, ma) ==
    << MulDiv(s[1], ma), MulDiv(s[2], ma), MulDiv(s[3], ma), MulDiv(s[4], ma) >>

\* The loops of rasterizeOpOver and rasterizeOpSrc from their k-th
\* iteration on (y outer, x inner).  Reading z.bufU32 beyond its length
\* panics, and leaves the pixels written so far.
RECURSIVE RasterLoop(_, _, _, _, _, _, _, _)
RasterLoop(op, dst, r, s, bufU32, lenU32, sizeX, k) ==
    LET x1 == RectDx(r)
        y1 == RectDy(r)
    IN IF x1 <= 0 \/ y1 <= 0 \/ k >= x1 * y1
       THEN [dst |-> dst, panicked |-> FALSE]
       ELSE LET y == k \div x1
                x == k % x1
                i == y * sizeX + x
            IN IF i >= lenU32
               THEN [dst |-> dst, panicked |-> TRUE]
               ELSE LET ma == bufU32[i + 1]
                        out == IF op = Over
                               THEN OverPixel(s, At(dst, r[1] + x, r[2] + y), ma)
                               ELSE SrcPixel(s, ma)
                    IN RasterLoop(op, Set(dst, r[1] + x, r[2] + y, out),
                                  r, s, bufU32, lenU32, sizeX, k + 1)

\* rasterizeOpOver with loops that test their condition after the body:
\* an empty rectangle has its corner pixel composited.
rasterizeOpOverBodyFirst(dst, r, s, bufU32, lenU32, sizeX) ==
    IF RectDx(r) <= 0 \/ RectDy(r) <= 0
    THEN IF lenU32 = 0
         THEN [dst |-> dst, panicked |-> TRUE]
         ELSE [dst |-> Set(dst, r[1], r[2],
                           OverPixel(s, At(dst, r[1], r[2]), bufU32[1])),
               panicked |-> FALSE]
    ELSE RasterLoop(Over, dst, r, s, bufU32, lenU32, sizeX, 0)

rasterizeOpOver(dst, r, s, bufU32, lenU32, sizeX) ==
    RasterLoop(Over, dst, r, s, bufU32, lenU32, sizeX, 0)

rasterizeOpSrc(dst, r, s, bufU32, lenU32, sizeX) ==
    RasterLoop(Src, dst, r, s, bufU32, lenU32, sizeX, 0)

\* z.Bounds()
Bounds(sz) == <<0, 0, sz[1], sz[2]>>

\* rasterizeDstAlphaSrcOpaqueOpSrc that takes every case for the general
\* one and draws nothing.
rasterizeDstAlphaSrcOpaqueOpSrcTodo(dst, r, sz, bufF32, lenF32) == dst

\* rasterizeDstAlphaSrcOpaqueOpSrc: outside the case of equal rectangles
\* the code prints "TODO: the general case" and draws nothing.
rasterizeDstAlphaSrcOpaqueOpSrc(dst, r, sz, bufF32, lenF32) ==
    IF r = dst.rect /\ r = Bounds(sz)
    THEN [dst EXCEPT !.pix = floatingAccumulateOpSrc(dst.pix, bufF32, lenF32)]
    ELSE dst

rasterizeDstAlphaSrcOpaqueOpOver(dst, r, sz, bufF32, lenF32) ==
    IF r = dst.rect /\ r = Bounds(sz)
    THEN [dst EXCEPT !.pix = floatingAccumulateOpOver(dst.pix, bufF32, lenF32)]
    ELSE dst

\* Whether Draw takes the glyph-rendering fast path: src is an
\* *image.Uniform (every source of the model is), dst an *image.Alpha and
\* the source alpha 0xffff.
FastPath(dst, s) == dst.kind = "Alpha" /\ s[4] = 65535

\* The general path of Draw: bufU32 is resized to size.X*size.Y,
\* floatingAccumulateMask fills it and the operator's loop runs.
GeneralDraw(op, dst, r, s, sz, bufF32, lenF32, bufU32) ==
    LET n == sz[1] * sz[2]
        resized == IF n > Len(bufU32) THEN Zeros(n) ELSE bufU32
        mask == floatingAccumulateMask(resized, bufF32, n)
        res == IF op = Over
               THEN rasterizeOpOver(dst, r, s, mask, n, sz[1])
               ELSE rasterizeOpSrc(dst, r, s, mask, n, sz[1])
    IN [dst |-> res.dst, panicked |-> res.panicked,
        bufU32 |-> mask, lenU32 |-> n]


\* --------------------------------------------------------------- the state

VARIABLES
    size,     \* z.size, <<X, Y>>
    bufF32,   \* the array under z.bufF32, up to its capacity
    lenF32,   \* len(z.bufF32)
    bufU32,   \* the array under z.bufU32, up to its capacity
    lenU32,   \* len(z.bufU32)
    first,    \* z.first
    pen,      \* z.pen
    DrawOp,   \* z.DrawOp
    nsegs,    \* LineTo and ClosePath calls since NewRasterizer or Reset
    nresets,  \* Reset calls so far
    fresh,    \* a Rasterizer made by NewRasterizer when z was last made or
              \* Reset, given every call z was given since
    call,     \* if the last call was Draw: its arguments and the destination
              \* after it
    panicked, \* whether the last call ended in a run-time panic
    script,   \* the contours the caller is drawing, if it follows a script,
              \* and the place in it
    heap,     \* the arrays made by make([]float32, n) for the Rasterizers
              \* of a program that has several, by address
    rasterizers, \* the Rasterizers of such a program: their fields, with
              \* the address of the array under bufF32, and what each has
              \* been given
    bitReader,   \* a ccitt bitReader, its io.Reader and what its caller
              \* has read from it
    cffParser    \* a cffParser that interprets a Top DICT

vars == <<size, bufF32, lenF32, bufU32, lenU32, first, pen, DrawOp, nsegs,
          nresets, fresh, call, panicked, script, heap, rasterizers,
          bitReader, cffParser>>

\* The objects of the programs that have one Rasterizer z and nothing else
others == <<heap, rasterizers, bitReader, cffParser>>
NoOthers ==
    /\ heap = <<>>
    /\ rasterizers = <<>>
    /\ bitReader = <<>>
    /\ cffParser = <<>>

\* NewRasterizer without "bufF32: make([]float32, w*h)": the buffer is nil.
NewRasterizerNoBuffer(w, h) ==
    [size |-> <<w, h>>, bufF32 |-> <<>>, lenF32 |-> 0,
     bufU32 |-> <<>>, lenU32 |-> 0,
     first |-> <<0, 0>>, pen |-> <<0, 0>>, DrawOp |-> Over]

\* The fields of the Rasterizer NewRasterizer(w, h) returns.
NewRasterizer(w, h) ==
    [size |-> <<w, h>>, bufF32 |-> Zeros(w * h), lenF32 |-> w * h,
     bufU32 |-> <<>>, lenU32 |-> 0,
     first |-> <<0, 0>>, pen |-> <<0, 0>>, DrawOp |-> Over]

\* The fields of z
Z == [size |-> size, bufF32 |-> bufF32, lenF32 |-> lenF32,
      bufU32 |-> bufU32, lenU32 |-> lenU32,
      first |-> first, pen |-> pen, DrawOp |-> DrawOp]

\* Reset's buffer without the loop that zeroes a reused array.
ResetBufKeeps(buf, n) ==
    IF n > Len(buf) THEN Zeros(n) ELSE buf

\* Reset's buffer: a new zeroed array when n exceeds the capacity, else the
\* old array cut to n entries, each set to zero; what lies beyond n stays.
ResetBuf(buf, n) ==
    IF n > Len(buf) THEN Zeros(n)
    ELSE [i \in 1..Len(buf) |-> IF i <= n THEN 0 ELSE buf[i]]

\* Reset without "z.DrawOp = draw.Over".
ResetZKeepsDrawOp(z, w, h) ==
    [z EXCEPT !.bufF32 = ResetBuf(z.bufF32, w * h), !.lenF32 = w * h,
              !.size = <<w, h>>, !.first = <<0, 0>>, !.pen = <<0, 0>>]

\* Rasterizer.Reset on the fields z
ResetZ(z, w, h) ==
    [z EXCEPT !.bufF32 = ResetBuf(z.bufF32, w * h), !.lenF32 = w * h,
              !.size = <<w, h>>, !.first = <<0, 0>>, !.pen = <<0, 0>>,
              !.DrawOp = Over]

\* MoveTo that closes the contour it leaves.
MoveToZCloses(z, a) ==
    [z EXCEPT !.bufF32 = floatingLineTo(z.bufF32, z.lenF32, z.size, z.pen,
                                        z.first),
              !.first = a, !.pen = a]

\* MoveTo that moves the pen and leaves the start of the contour.
MoveToZKeepsFirst(z, a) == [z EXCEPT !.pen = a]

\* Rasterizer.MoveTo
MoveToZ(z, a) == [z EXCEPT !.first = a, !.pen = a]

\* LineTo that accumulates the segment and leaves the pen.
LineToZKeepsPen(z, b) ==
    [z EXCEPT !.bufF32 = floatingLineTo(z.bufF32, z.lenF32, z.size, z.pen, b)]

\* Rasterizer.LineTo, which is floatingLineTo: the segment is accumulated
\* and the pen moves to b.
LineToZ(z, b) ==
    [z EXCEPT !.bufF32 = floatingLineTo(z.bufF32, z.lenF32, z.size, z.pen, b),
              !.pen = b]

\* ClosePath that draws the closing segment and leaves the pen.
ClosePathZKeepsPen(z) == [LineToZ(z, z.first) EXCEPT !.pen = z.pen]

\* ClosePath that draws to the origin instead of the start of the contour.
ClosePathZToOrigin(z) == LineToZ(z, <<0, 0>>)

\* ClosePath that leaves the contour open.
ClosePathZNoOp(z) == z

\* Rasterizer.ClosePath
ClosePathZ(z) == LineToZ(z, z.first)

\* Pen that returns the start of the contour.
PenFirst(z) == z.first

\* Rasterizer.Pen
Pen(z) == z.pen

\* devSquared, in 1/Unit^2
devSquared(a, b, c) ==
    LET devx == a[1] - 2 * b[1] + c[1]
        devy == a[2] - 2 * b[2] + c[2]
    IN devx * devx + devy * devy

\* "devsq >= 0.333" for a devSquared of d/Unit^2
Curvy(d) == 1000 * d >= 333 * Unit * Unit

\* int(math.Sqrt(math.Sqrt(num/den))): the largest k from k0 on with
\* k^4 <= num/den.
RECURSIVE RootRoot(_, _, _)
RootRoot(num, den, k0) ==
    IF (k0 + 1) * (k0 + 1) * (k0 + 1) * (k0 + 1) * den > num THEN k0
    ELSE RootRoot(num, den, k0 + 1)

\* The number of segments with the fourth root rounded up instead of cut.
SegmentsRoundedUp(d) ==
    IF Curvy(d)
    THEN LET k == RootRoot(3 * d, Unit * Unit, 0)
         IN IF k * k * k * k * Unit * Unit = 3 * d THEN 1 + k ELSE 2 + k
    ELSE 1

\* The number of segments without the test of the tolerance, and one more.
SegmentsNoTolerance(d) == 2 + RootRoot(3 * d, Unit * Unit, 0)

\* "n := 1 + int(math.Sqrt(math.Sqrt(tol*float64(devsq))))", tol = 3, for a
\* devSquared of d/Unit^2; without it, one segment.
Segments(d) ==
    IF Curvy(d) THEN 1 + RootRoot(3 * d, Unit * Unit, 0) ELSE 1

\* lerp(t, p, q) for t = i/n: the numerators of the point's coordinates,
\* over n times the denominator of p and q.
lerp(i, n, p, q) ==
    <<n * p[1] + i * (q[1] - p[1]), n * p[2] + i * (q[2] - p[2])>>

\* The argument of the i-th LineTo of QuadTo's loop, t = i/n: numerators
\* over n^2 * Unit.
QuadPoint(i, n, a, b, c) ==
    lerp(i, n, lerp(i, n, a, b), lerp(i, n, b, c))

\* The argument of the i-th LineTo of CubeTo's loop: numerators over
\* n^3 * Unit.
CubePoint(i, n, a, b, c, d) ==
    LET ab == lerp(i, n, a, b)
        bc == lerp(i, n, b, c)
        cd == lerp(i, n, c, d)
    IN lerp(i, n, lerp(i, n, ab, bc), lerp(i, n, bc, cd))

\* Whether the point of numerators p over den * Unit is a point of the
\* model, and that point
OnGrid(p, den) == p[1] % den = 0 /\ p[2] % den = 0
GridPoint(p, den) == <<p[1] \div den, p[2] \div den>>

\* The arguments of the LineTo calls of QuadTo(b, c) with the pen at a
QuadPoints(a, b, c) ==
    LET n == Segments(devSquared(a, b, c))
    IN [i \in 1..n |->
          IF i = n THEN c ELSE GridPoint(QuadPoint(i, n, a, b, c), n * n)]

\* The number of segments of CubeTo from the first control point alone.
CubeSegmentsFirstControl(a, b, c, d) == Segments(devSquared(a, b, d))

\* The arguments of the LineTo calls of CubeTo(b, c, d) with the pen at a
CubeSegments(a, b, c, d) ==
    Segments(Max2(devSquared(a, b, d), devSquared(a, c, d)))
CubePoints(a, b, c, d) ==
    LET n == CubeSegments(a, b, c, d)
    IN [i \in 1..n |->
          IF i = n THEN d
          ELSE GridPoint(CubePoint(i, n, a, b, c, d), n * n * n)]

\* The LineTo calls with the arguments pts, one after the other
RECURSIVE LinesToZ(_, _)
LinesToZ(z, pts) ==
    IF Len(pts) = 0 THEN z
    ELSE LinesToZ(LineToZ(z, Head(pts)), Tail(pts))

\* Rasterizer.QuadTo
QuadToZ(z, b, c) == LinesToZ(z, QuadPoints(z.pen, b, c))

\* Rasterizer.CubeTo
CubeToZ(z, b, c, d) == LinesToZ(z, CubePoints(z.pen, b, c, d))

\* Whether the model's arithmetic is the code's on the segments from a
\* through pts
RECURSIVE ExactSegs(_, _)
ExactSegs(a, pts) ==
    IF Len(pts) = 0 THEN TRUE
    ELSE ExactSeg(a, Head(pts)) /\ ExactSegs(Head(pts), Tail(pts))

\* The curves on which the model's arithmetic is the code's: the number of
\* segments is a power of two, so that t and every lerp are exact in
\* float32, every point of the curve is a point of the model and every
\* segment is exact.
ExactQuad(a, b, c) ==
    LET n == Segments(devSquared(a, b, c))
    IN /\ IsPow2(n)
       /\ \A i \in 1..(n - 1) : OnGrid(QuadPoint(i, n, a, b, c), n * n)
       /\ ExactSegs(a, QuadPoints(a, b, c))
ExactCube(a, b, c, d) ==
    LET n == CubeSegments(a, b, c, d)
    IN /\ IsPow2(n)
       /\ \A i \in 1..(n - 1) : OnGrid(CubePoint(i, n, a, b, c, d), n * n * n)
       /\ ExactSegs(a, CubePoints(a, b, c, d))

\* Rasterizer.Draw that leaves the coverage buffer zeroed for the next path.
DrawZClears(z, dst, r, s) ==
    LET cleared == [z EXCEPT !.bufF32 = Zeros(Len(z.bufF32))]
    IN IF FastPath(dst, s)
       THEN [z |-> cleared,
             dst |-> IF z.DrawOp = Over
                     THEN rasterizeDstAlphaSrcOpaqueOpOver(dst, r, z.size,
                                                           z.bufF32, z.lenF32)
                     ELSE rasterizeDstAlphaSrcOpaqueOpSrc(dst, r, z.size,
                                                          z.bufF32, z.lenF32),
             panicked |-> FALSE]
       ELSE LET g == GeneralDraw(z.DrawOp, dst, r, s, z.size, z.bufF32,
                                 z.lenF32, z.bufU32)
            IN [z |-> [cleared EXCEPT !.bufU32 = g.bufU32,
                                      !.lenU32 = g.lenU32],
                dst |-> g.dst, panicked |-> g.panicked]

\* Rasterizer.Draw on the fields z with a uniform source of colour s: the
\* fields after it, the destination after it and whether it panicked.
DrawZ(z, dst, r, s) ==
    IF FastPath(dst, s)
    THEN [z |-> z,
          dst |-> IF z.DrawOp = Over
                  THEN rasterizeDstAlphaSrcOpaqueOpOver(dst, r, z.size,
                                                        z.bufF32, z.lenF32)
                  ELSE rasterizeDstAlphaSrcOpaqueOpSrc(dst, r, z.size,
                                                       z.bufF32, z.lenF32),
          panicked |-> FALSE]
    ELSE LET g == GeneralDraw(z.DrawOp, dst, r, s, z.size, z.bufF32,
                              z.lenF32, z.bufU32)
         IN [z |-> [z EXCEPT !.bufU32 = g.bufU32, !.lenU32 = g.lenU32],
             dst |-> g.dst, panicked |-> g.panicked]

\* ------------------------------------------------------------- the inputs

\* The sizes given to NewRasterizer and Reset: empty, one pixel, one row
\* and a square, so that Reset grows, shrinks and keeps the buffer.
Sizes == {<<0, 0>>, <<1, 1>>, <<MaxDim, 1>>, <<MaxDim, MaxDim>>}

\* The points of the runs that reset the Rasterizer: the ends of the
\* vertical line through the middle of the first column of pixels.  With
\* the origin they give segments that leave partial and full coverage of
\* either sign in every row.
ResetPoints == {<<Unit \div 2, 0>>, <<Unit \div 2, MaxDim * Unit>>}

\* Uniform sources: image.Opaque, opaque blue, a translucent red.
Opaque == <<65535, 65535, 65535, 65535>>
Blue == <<0, 0, 65535, 65535>>
HalfRed == <<16384, 0, 0, 32768>>
Transparent == <<0, 0, 0, 0>>

\* The arguments of Draw for a Rasterizer of size sz, each <<dst, r, s>>:
\* alpha images over its bounds (zero and 0x80 backgrounds, as in
\* TestBasicPathDstAlpha), one of these as a sub-image of a wider image,
\* wider alpha images, and RGBA64 images over its bounds and wider; as
\* rectangles the rasterizer's bounds, the destination's, two of zero area
\* and one of negative width.
Wider(sz) == <<0, 0, sz[1] + 1, sz[2]>>
EmptyRect == <<1, 0, 1, 1>>
FlatRect == <<0, 1, 1, 1>>
NegRect == <<1, 0, 0, 1>>
DrawArgs(sz) ==
    LET zb == Bounds(sz)
    IN << <<NewAlpha(zb, 0), zb, Opaque>>,
          <<NewAlpha(zb, 128), zb, Opaque>>,
          <<NewAlpha(zb, 128), zb, HalfRed>>,
          <<NewAlpha(zb, 128), EmptyRect, Opaque>>,
          <<NewAlpha(zb, 128), FlatRect, HalfRed>>,
          <<NewAlpha(Wider(sz), 0), zb, Opaque>>,
          <<NewAlpha(Wider(sz), 128), zb, Opaque>>,
          <<NewAlpha(Wider(sz), 128), Wider(sz), Opaque>>,
          <<NewRGBA64(zb, Transparent), zb, Blue>>,
          <<NewRGBA64(zb, HalfRed), zb, Blue>>,
          <<NewRGBA64(zb, HalfRed), zb, HalfRed>>,
          <<NewRGBA64(zb, HalfRed), EmptyRect, Blue>>,
          <<NewRGBA64(zb, HalfRed), FlatRect, Blue>>,
          <<NewRGBA64(zb, HalfRed), NegRect, HalfRed>>,
          <<NewRGBA64(Wider(sz), HalfRed), zb, Blue>>,
          <<NewRGBA64(Wider(sz), Transparent), Wider(sz), Blue>> >>
       \o (IF sz[1] > 0 /\ sz[2] > 0
           THEN << <<SubAlpha(sz[1] + 1, sz[2], zb, 128), zb, Opaque>> >>
           ELSE << >>)

\* The Draw calls of the runs that reset the Rasterizer: the fast path and
\* the general path, which fills bufU32.
ResetDrawArgs(sz) ==
    << <<NewAlpha(Bounds(sz), 128), Bounds(sz), Opaque>>,
       <<NewRGBA64(Bounds(sz), HalfRed), Bounds(sz), Blue>> >>

\* The sizes and the contents of the coverage buffers that Draw is given:
\* every buffer of at most MaxPixels entries, each entry no, half or full
\* coverage, or full coverage of the other sign.  Vertical segments one
\* pixel high, at pixel edges and pixel centres, leave each of them.
DrawSizes ==
    {<<0, 0>>, <<0, 1>>, <<1, 0>>}
    \cup {<<w, h>> \in (1..MaxPixels) \X (1..MaxPixels) : w * h <= MaxPixels}
CoverageValues == {-AreaUnit, 0, AreaUnit \div 2, AreaUnit}

\* A rectangular contour, in pixels: cw is MoveTo(x0, y0), LineTo(x1, y0),
\* LineTo(x1, y1), LineTo(x0, y1), ClosePath; ccw runs the other way round.
Contours ==
    [x0 : 0..ContourW, x1 : 0..ContourW, y0 : 0..ContourH, y1 : 0..ContourH,
     dir : {"cw", "ccw"}]
RectContours == {c \in Contours : c.x0 < c.x1 /\ c.y0 < c.y1}

\* Whether the contour c lies inside the contour d, or on it
Within(c, d) ==
    d.x0 <= c.x0 /\ c.x1 <= d.x1 /\ d.y0 <= c.y0 /\ c.y1 <= d.y1

\* The calls that draw the contour c
ContourCmds(c) ==
    LET p00 == <<c.x0 * Unit, c.y0 * Unit>>
        p10 == <<c.x1 * Unit, c.y0 * Unit>>
        p11 == <<c.x1 * Unit, c.y1 * Unit>>
        p01 == <<c.x0 * Unit, c.y1 * Unit>>
    IN IF c.dir = "cw"
       THEN << <<"MoveTo", p00>>, <<"LineTo", p10>>, <<"LineTo", p11>>,
               <<"LineTo", p01>>, <<"ClosePath", p00>> >>
       ELSE << <<"MoveTo", p00>>, <<"LineTo", p01>>, <<"LineTo", p11>>,
               <<"LineTo", p10>>, <<"ClosePath", p00>> >>

\* The calls that draw the contours cs, one after the other
RECURSIVE Cmds(_)
Cmds(cs) == IF cs = <<>> THEN <<>> ELSE ContourCmds(Head(cs)) \o Cmds(Tail(cs))

\* The Draw calls that follow the contours: the general and the fast path,
\* onto a zeroed destination with image.Opaque as the source.
ContourDrawArgs(sz) ==
    << <<NewRGBA64(Bounds(sz), Transparent), Bounds(sz), Opaque>>,
       <<NewAlpha(Bounds(sz), 0), Bounds(sz), Opaque>> >>

\* The closed polygons given to the Rasterizer of ContourW by ContourH
\* pixels, as sequences of vertices: rectangles whose vertical edges lie on
\* any x of the 1/Unit grid and whose horizontal edges lie on pixel
\* boundaries, or the other way round, and right triangles with corners on
\* pixel boundaries and legs of one or two pixels, each in both directions.
GridXs == 0..(ContourW * Unit)
GridYs == 0..(ContourH * Unit)
PixelXs == {x \in GridXs : x % Unit = 0}
PixelYs == {y \in GridYs : y % Unit = 0}

RectOf(x0, y0, x1, y1, dir) ==
    IF dir = "cw"
    THEN << <<x0, y0>>, <<x1, y0>>, <<x1, y1>>, <<x0, y1>> >>
    ELSE << <<x0, y0>>, <<x0, y1>>, <<x1, y1>>, <<x1, y0>> >>

Rects ==
    {RectOf(x0, y0, x1, y1, dir) :
        x0 \in GridXs, y0 \in PixelYs, x1 \in GridXs, y1 \in PixelYs,
        dir \in {"cw", "ccw"}}
    \cup
    {RectOf(x0, y0, x1, y1, dir) :
        x0 \in PixelXs, y0 \in GridYs, x1 \in PixelXs, y1 \in GridYs,
        dir \in {"cw", "ccw"}}

Legs == {-2 * Unit, -Unit, Unit, 2 * Unit}

Triangles ==
    {<< <<x, y>>, <<x + ex, y>>, <<x, y + ey>> >> :
        x \in PixelXs, y \in PixelYs, ex \in Legs, ey \in Legs}
    \cup
    {<< <<x, y>>, <<x, y + ey>>, <<x + ex, y>> >> :
        x \in PixelXs, y \in PixelYs, ex \in Legs, ey \in Legs}

\* Twice the signed area of the polygon vs
Cross(o, p, q) ==
    (p[1] - o[1]) * (q[2] - o[2]) - (p[2] - o[2]) * (q[1] - o[1])
Area2(vs) ==
    IF Len(vs) = 3 THEN Cross(vs[1], vs[2], vs[3])
    ELSE Cross(vs[1], vs[2], vs[3]) + Cross(vs[1], vs[3], vs[4])

InBuffer(p) == p[1] \in GridXs /\ p[2] \in GridYs

Polygons ==
    {vs \in Rects \cup Triangles :
        /\ \A i \in 1..Len(vs) : InBuffer(vs[i])
        /\ Area2(vs) # 0}

\* The calls that draw the closed polygon vs
PolyCmds(vs) ==
    << <<"MoveTo", vs[1]>> >>
    \o [i \in 1..(Len(vs) - 1) |-> <<"LineTo", vs[i + 1]>>]
    \o << <<"ClosePath", vs[1]>> >>

\* The calls that follow a polygon: "z.DrawOp = draw.Src" and Draw onto a
\* zeroed alpha destination of the Rasterizer's size with image.Opaque as
\* the source.
PathDrawArgs(sz) == << <<NewAlpha(Bounds(sz), 0), Bounds(sz), Opaque>> >>
DrawTail == << <<"SetDrawOp", Src>>, <<"Draw", 1>> >>

\* The closed polygons that reach beyond the left or the right edge of the
\* buffer, by up to ClipMargin pixels
ClipMargin == 2
ClipXs ==
    {-ClipMargin * Unit, -Unit - 1, -(Unit \div 2), 0, Unit \div 2, Unit,
     ContourW * Unit - 1, ContourW * Unit, ContourW * Unit + 1,
     (ContourW + 1) * Unit, (ContourW + ClipMargin) * Unit}
ClipPixelXs == {x \in ClipXs : x % Unit = 0}
ClipRects ==
    {RectOf(x0, y0, x1, y1, dir) :
        x0 \in ClipXs, y0 \in PixelYs, x1 \in ClipXs, y1 \in PixelYs,
        dir \in {"cw", "ccw"}}
ClipTriangles ==
    {<< <<x, y>>, <<x + ex, y>>, <<x, y + ey>> >> :
        x \in ClipPixelXs, y \in PixelYs, ex \in Legs, ey \in Legs}
    \cup
    {<< <<x, y>>, <<x, y + ey>>, <<x + ex, y>> >> :
        x \in ClipPixelXs, y \in PixelYs, ex \in Legs, ey \in Legs}
BesideBuffer(p) == p[1] < 0 \/ p[1] > ContourW * Unit
ClipPolygons ==
    {vs \in ClipRects \cup ClipTriangles :
        /\ \A i \in 1..Len(vs) :
              /\ vs[i][2] \in GridYs
              /\ vs[i][1] >= -ClipMargin * Unit
              /\ vs[i][1] <= (ContourW + ClipMargin) * Unit
        /\ \E i \in 1..Len(vs) : BesideBuffer(vs[i])
        /\ Area2(vs) # 0}

\* The premultiplied colours and the mask values given to the source-over
\* arithmetic
Channels == {0, 1, 32768, 65534, 65535}
Premultiplied ==
    {col \in {<<c, 0, a, a>> : c \in Channels, a \in Channels} :
        col[1] <= col[4]}

\* The end points of the single segments: left of, in, on the right edge
\* of and right of the buffer, and above, in, on the lower edge of and
\* below it.
SegXs == {-Unit, 0, Unit \div 4, Unit, ContourW * Unit, (ContourW + 1) * Unit}
SegYs == {-2 * Unit, -Unit, 0, Unit \div 2, Unit, ContourH * Unit,
          (ContourH + 1) * Unit, (ContourH + 2) * Unit}
SegPoints == SegXs \X SegYs

\* The points of the paths that call MoveTo in the middle of a contour
MidPoints ==
    {<<0, 0>>, <<Unit, Unit>>, <<Unit + Unit \div 2, 0>>,
     <<Unit, ContourH * Unit>>}

\* What precedes those paths: nothing or "z.DrawOp = draw.Src"
OpPrefixes == << <<>>, << <<"SetDrawOp", Src>> >> >>

\* The points of the curves
CurvePoints == {0, Unit \div 2, 2 * Unit} \X {0, Unit, 4 * Unit}
CubicPoints == {<<0, 0>>, <<0, Unit>>, <<0, 4 * Unit>>, <<Unit \div 2, 2 * Unit>>}

\* ------------------------------------------------- several Rasterizers

\* make([]float32, n), make([]uint32, n): the heap h with a new array of n
\* zeros in it, and the address of that array.  No array is at address 0
\* (a nil slice).
makeReused(h, n) ==
    IF Len(h) = 0 THEN [heap |-> <<Zeros(n)>>, addr |-> 1]
    ELSE [heap |-> [h EXCEPT ![1] = Zeros(n)], addr |-> 1]

make(h, n) == [heap |-> Append(h, Zeros(n)), addr |-> Len(h) + 1]

\* The array at the address a of the heap h
ArrayAt(h, a) == IF a = 0 THEN <<>> ELSE h[a]

\* The fields of the Rasterizer r, with the arrays its slices point to
Load(h, r) ==
    [size |-> r.size, bufF32 |-> ArrayAt(h, r.bufF32), lenF32 |-> r.lenF32,
     bufU32 |-> ArrayAt(h, r.bufU32), lenU32 |-> r.lenU32,
     first |-> r.first, pen |-> r.pen, DrawOp |-> r.DrawOp]

\* The destinations and sources of the Draw calls of such a program: the
\* fast path and the general path
TwoDrawArgs(sz) ==
    << <<NewAlpha(Bounds(sz), 0), Bounds(sz), Opaque>>,
       <<NewRGBA64(Bounds(sz), Transparent), Bounds(sz), Blue>> >>

\* One call on a Rasterizer with the fields z that last drew dst
ApplyOp(st, op) ==
    CASE op[1] = "MoveTo" -> [st EXCEPT !.z = MoveToZ(@, op[2])]
      [] op[1] = "LineTo" -> [st EXCEPT !.z = LineToZ(@, op[2])]
      [] op[1] = "ClosePath" -> [st EXCEPT !.z = ClosePathZ(@)]
      [] op[1] = "SetDrawOp" -> [st EXCEPT !.z.DrawOp = op[2]]
      [] op[1] = "Reset" -> [st EXCEPT !.z = ResetZ(@, op[2], op[3])]
      [] op[1] = "Draw" ->
            LET args == TwoDrawArgs(st.z.size)[op[2]]
                res == DrawZ(st.z, args[1], args[2], args[3])
            IN [z |-> res.z, dst |-> res.dst]

\* The heap and the Rasterizer r after a call that left the fields z: a
\* slice that outgrew its array points to a new one, the others' arrays are
\* written in place.
Store(h, r, z) ==
    LET newF == Len(z.bufF32) > Len(ArrayAt(h, r.bufF32))
        mF == IF newF THEN make(h, Len(z.bufF32))
              ELSE [heap |-> h, addr |-> r.bufF32]
        hF == [mF.heap EXCEPT ![mF.addr] = z.bufF32]
        newU == Len(z.bufU32) > Len(ArrayAt(h, r.bufU32))
        mU == IF newU THEN make(hF, Len(z.bufU32))
              ELSE [heap |-> hF, addr |-> r.bufU32]
        hU == IF mU.addr = 0 THEN mU.heap
              ELSE [mU.heap EXCEPT ![mU.addr] = z.bufU32]
    IN [heap |-> hU,
        r |-> [r EXCEPT !.size = z.size, !.bufF32 = mF.addr,
                        !.lenF32 = z.lenF32, !.bufU32 = mU.addr,
                        !.lenU32 = z.lenU32, !.first = z.first,
                        !.pen = z.pen, !.DrawOp = z.DrawOp]]

\* The Rasterizer NewRasterizer(w, h) returns, on the heap h; it is to be
\* given the calls prog.
NewOnHeap(h, w, ht, prog) ==
    LET m == make(h, w * ht)
    IN [heap |-> m.heap,
        r |-> [size |-> <<w, ht>>, bufF32 |-> m.addr, lenF32 |-> w * ht,
               bufU32 |-> 0, lenU32 |-> 0, first |-> <<0, 0>>,
               pen |-> <<0, 0>>, DrawOp |-> Over, dst |-> <<>>,
               size0 |-> <<w, ht>>, prog |-> prog, pc |-> 1]]

\* The sizes and the calls two Rasterizers are given
TwoSizes == {<<2, 1>>, <<1, 1>>}
Programs ==
    << << <<"MoveTo", <<Unit \div 2, 0>>>>, <<"LineTo", <<Unit \div 2, Unit>>>>,
          <<"Draw", 1>> >>,
       << <<"LineTo", <<0, Unit>>>>, <<"SetDrawOp", Src>>, <<"Draw", 2>> >>,
       << <<"MoveTo", <<Unit, 0>>>>, <<"LineTo", <<Unit, Unit>>>>,
          <<"Reset", 1, 1>>, <<"LineTo", <<0, Unit>>>>, <<"Draw", 2>> >>,
       << <<"LineTo", <<0, Unit>>>>, <<"Draw", 2>>, <<"Reset", 2, 2>>,
          <<"MoveTo", <<Unit, 2 * Unit>>>>, <<"ClosePath">>, <<"Draw", 1>> >> >>

\* ------------------------------------------------- the CCITT bit reader

\* An unsigned integer of w bits is the sequence of its bits, the least
\* significant first.
Uint(s, w) == [i \in 1..w |-> IF i <= Len(s) THEN s[i] ELSE 0]
Shr(v, n) == [i \in 1..Len(v) |-> IF i + n <= Len(v) THEN v[i + n] ELSE 0]
Shl(v, n) == [i \in 1..Len(v) |-> IF i > n THEN v[i - n] ELSE 0]
Or(v, u) == [i \in 1..Len(v) |-> Max2(v[i], u[i])]
ByteBits(x) == [i \in 1..8 |-> (x \div 2 ^ (i - 1)) % 2]

\* bits.Reverse8
Reverse8(x) ==
    LET b == ByteBits(x)
    IN 128 * b[1] + 64 * b[2] + 32 * b[3] + 16 * b[4] + 8 * b[5] + 4 * b[6]
       + 2 * b[7] + b[8]

\* binary.LittleEndian.Uint32(bytes[br:])
Uint32BigEndian(bytes, br) ==
    ByteBits(bytes[br + 4]) \o ByteBits(bytes[br + 3])
        \o ByteBits(bytes[br + 2]) \o ByteBits(bytes[br + 1])

Uint32(bytes, br) ==
    ByteBits(bytes[br + 1]) \o ByteBits(bytes[br + 2])
        \o ByteBits(bytes[br + 3]) \o ByteBits(bytes[br + 4])

LSB == 0
MSB == 1
nextBitMaxNBits == 31
NoError == "nil"
errInvalidCode == "errInvalidCode"

\* An io.Reader over the bytes data whose Reads give at most chunks[1],
\* chunks[2], ... bytes, the last of these from then on, and that reports
\* the end with the last bytes or after them: what its Read returns, and
\* the reader after it.
Read(r) ==
    LET n == Min2(Head(r.chunks), Len(r.data))
        rest == SubSeq(r.data, n + 1, Len(r.data))
    IN [n |-> n, p |-> SubSeq(r.data, 1, n),
        err |-> IF Len(rest) = 0 /\ (r.eofWithData \/ n = 0)
                THEN "EOF" ELSE NoError,
        r |-> [r EXCEPT !.data = rest,
                        !.chunks = IF Len(@) > 1 THEN Tail(@) ELSE @]]

\* bitReader{r: r, order: order}
NewBitReader(r, order) ==
    [r |-> r, readErr |-> NoError, order |-> order, bits |-> Uint(<<>>, 64),
     nBits |-> 0, br |-> 0, bw |-> 0, bytes |-> <<>>]

\* bitReader.nextBit: the bit and the error it returns, and the reader
\* after it
RECURSIVE nextBit(_)
nextBit(b) ==
    IF b.nBits > 0
    THEN [bit |-> b.bits[1], err |-> NoError,
          b |-> [b EXCEPT !.bits = Shr(@, 1), !.nBits = @ - 1]]
    ELSE IF b.bw - b.br >= 4
    THEN nextBit([b EXCEPT !.bits = Uint(Uint32(b.bytes, b.br), 64),
                           !.br = @ + 4, !.nBits = 32])
    ELSE IF b.bw - b.br > 0
    THEN nextBit([b EXCEPT !.bits = Uint(ByteBits(b.bytes[b.br + 1]), 64),
                           !.br = @ + 1, !.nBits = 8])
    ELSE IF b.readErr # NoError
    THEN [bit |-> 0, err |-> b.readErr, b |-> b]
    ELSE LET rd == Read(b.r)
             written == IF b.order # LSB
                        THEN [i \in 1..rd.n |-> Reverse8(rd.p[i])]
                        ELSE rd.p
         IN nextBit([b EXCEPT !.r = rd.r, !.br = 0, !.bw = rd.n,
                              !.readErr = rd.err,
                              !.bytes = written
                                  \o SubSeq(@, rd.n + 1, Len(@))])

\* decode puts back the nBitsRead bits it has read into bitsRead
unreadNoShift(b, nBitsRead, bitsRead) ==
    [b EXCEPT !.bits = Or(@, Uint(bitsRead, 64)), !.nBits = @ + nBitsRead]

unread(b, nBitsRead, bitsRead) ==
    [b EXCEPT !.bits = Or(Shl(@, nBitsRead), Uint(bitsRead, 64)),
              !.nBits = @ + nBitsRead]

\* The loop of decode, with nBitsRead bits read into bitsRead and the table
\* at state; n counts the bits that were read and not put back.
RECURSIVE decodeLoop(_, _, _, _, _)
decodeLoop(b, decodeTable, nBitsRead, bitsRead, state) ==
    LET nb == nextBit(b)
        read == Or(bitsRead, Shl(Uint(<<nb.bit>>, 32), nBitsRead))
        next == decodeTable[state][nb.bit + 1]
    IN IF nb.err # NoError
       THEN [val |-> 0, err |-> nb.err, b |-> nb.b, n |-> nBitsRead]
       ELSE IF next < 0
       THEN [val |-> (-next) - 1, err |-> NoError, b |-> nb.b,
             n |-> nBitsRead + 1]
       ELSE IF next = 0
       THEN [val |-> 0, err |-> errInvalidCode, n |-> 0,
             b |-> unread(nb.b, nBitsRead + 1, read)]
       ELSE decodeLoop(nb.b, decodeTable, nBitsRead + 1, read, next)

\* decode(b, decodeTable)
decode(b, decodeTable) == decodeLoop(b, decodeTable, 0, Uint(<<>>, 32), 1)

\* The table of the mode codes: the row of a state gives the state after a
\* 0 and after a 1; 0 is an invalid code and -(v + 1) is the value v.
modeTable ==
    << <<2, -3>>, <<3, 4>>, <<5, -2>>, <<-7, -4>>, <<6, -1>>, <<7, 8>>,
       <<9, 10>>, <<-8, -5>>, <<11, -10>>, <<-9, -6>>, <<12, 0>>, <<13, 0>>,
       <<14, 0>>, <<15, 0>>, <<0, -11>> >>

\* The bytes that hold the bits s in the order given, the last byte filled
\* with zeros
Padded(s) == Uint(s, 8 * ((Len(s) + 7) \div 8))
Pack(s, order) ==
    [j \in 1..(Len(Padded(s)) \div 8) |->
        LET bit(i) == Padded(s)[8 * (j - 1) + i]
        IN IF order = LSB
           THEN bit(1) + 2 * bit(2) + 4 * bit(3) + 8 * bit(4) + 16 * bit(5)
                + 32 * bit(6) + 64 * bit(7) + 128 * bit(8)
           ELSE 128 * bit(1) + 64 * bit(2) + 32 * bit(3) + 16 * bit(4)
                + 8 * bit(5) + 4 * bit(6) + 2 * bit(7) + bit(8)]

\* The streams: the one of TestInvalidCode, one-bit codes before the
\* invalid code 00000001 and the bits 1011, and the same with more bytes
\* after them.
MaxLead == 26
Ones(k) == [i \in 1..k |-> 1]
InvalidTail == <<0, 0, 0, 0, 0, 0, 0, 1, 1, 0, 1, 1>>
TestStream == <<1, 0, 1, 0>> \o InvalidTail
Streams ==
    {TestStream} \cup {Ones(k) \o InvalidTail : k \in 0..MaxLead}
        \cup {Ones(k) \o InvalidTail \o Ones(24) : k \in {1, 4}}
Chunks == {<<1>>, <<4>>, <<5>>, <<1, 4>>}

\* ------------------------------------------- the CFF Top DICT interpreter

psStackSize == 48
maxRealNumberStrLen == 64
maxNibbleDefsLength == 2
escapeByte == 12
errInvalidCFFTable == "sfnt: invalid CFF table"
errUnsupportedRealNumberEncoding == "sfnt: unsupported real number encoding"
errUnrecognizedOperator == "sfnt: unrecognized CFF operator"
prUnsupportedRNE == -2
prInvalid == -1
prNone == 0
prGood == 1

\* int32(int16(u16(b))) and int32(u32(b)) of the bytes at the head of b
i16(b) ==
    IF b[1] >= 128 THEN (b[1] - 256) * 256 + b[2] ELSE b[1] * 256 + b[2]
i32(b) ==
    (IF b[1] >= 128 THEN b[1] - 256 ELSE b[1]) * 16777216
        + b[2] * 65536 + b[3] * 256 + b[4]

Drop(s, n) == SubSeq(s, n + 1, Len(s))

\* nibbleDefs, as sequences of characters
nibbleDefs ==
    << <<"0">>, <<"1">>, <<"2">>, <<"3">>, <<"4">>, <<"5">>, <<"6">>, <<"7">>,
       <<"8">>, <<"9">>, <<".">>, <<"E">>, <<"E", "-">>, <<>>, <<"-">>, <<>> >>

\* int32(math.Float32bits(float32(f))) for f, err := strconv.ParseFloat(s,
\* 32), where s is the string of the nibbles ns: on the strings of zeros
\* and on 1, 2 and -1; the empty string is an error, and no other string is
\* given.
ParseFloat(ns) ==
    IF Len(ns) = 0 THEN [ok |-> FALSE, bits |-> 0]
    ELSE IF ns = <<1>> THEN [ok |-> TRUE, bits |-> 1065353216]
    ELSE IF ns = <<2>> THEN [ok |-> TRUE, bits |-> 1073741824]
    ELSE IF ns = <<14, 1>> THEN [ok |-> TRUE, bits |-> -1082130432]
    ELSE [ok |-> \A i \in 1..Len(ns) : ns[i] = 0, bits |-> 0]

\* The nibbles of the bytes ins, the high one of a byte first, and the
\* length of the string of the first k of them
Nibbles(ins) ==
    [k \in 1..(2 * Len(ins)) |->
        IF k % 2 = 1 THEN ins[(k + 1) \div 2] \div 16 ELSE ins[k \div 2] % 16]
StrLen(ns, k) ==
    Cardinality({j \in 1..k : Len(nibbleDefs[ns[j] + 1]) >= 1})
        + Cardinality({j \in 1..k : Len(nibbleDefs[ns[j] + 1]) = 2})

\* The loop of parseNumber over the nibbles of a real number in the bytes
\* ins: it ends at the first nibble that is 0xf or 0xd or finds the string
\* too long for parseNumberBuf, or when the bytes are used up.
parseReal(ins) ==
    LET ns == Nibbles(ins)
        ends == {k \in 1..Len(ns) :
                    \/ ns[k] = 15
                    \/ ns[k] = 13
                    \/ StrLen(ns, k - 1) + maxNibbleDefsLength
                           > maxRealNumberStrLen}
    IN IF ends = {} THEN [number |-> 0, res |-> prInvalid, ins |-> <<>>]
       ELSE LET k == CHOOSE e \in ends : \A f \in ends : e <= f
                rest == Drop(ins, (k + 1) \div 2)
                f == ParseFloat(SubSeq(ns, 1, k - 1))
            IN IF ns[k] = 15
               THEN IF f.ok
                    THEN [number |-> f.bits, res |-> prGood, ins |-> rest]
                    ELSE [number |-> 0, res |-> prInvalid, ins |-> rest]
               ELSE IF ns[k] = 13
               THEN [number |-> 0, res |-> prInvalid, ins |-> rest]
               ELSE [number |-> 0, res |-> prUnsupportedRNE, ins |-> rest]

\* cffParser.parseNumber on the instructions ins: the number, the result
\* and the instructions left
parseNumber(ins) ==
    IF Len(ins) = 0 THEN [number |-> 0, res |-> prNone, ins |-> ins]
    ELSE LET b0 == ins[1]
         IN IF b0 = 28
            THEN IF Len(ins) < 3
                 THEN [number |-> 0, res |-> prInvalid, ins |-> ins]
                 ELSE [number |-> i16(Drop(ins, 1)), res |-> prGood,
                       ins |-> Drop(ins, 3)]
            ELSE IF b0 = 29
            THEN IF Len(ins) < 5
                 THEN [number |-> 0, res |-> prInvalid, ins |-> ins]
                 ELSE [number |-> i32(Drop(ins, 1)), res |-> prGood,
                       ins |-> Drop(ins, 5)]
            ELSE IF b0 = 30 THEN parseReal(Drop(ins, 1))
            ELSE IF b0 < 32 THEN [number |-> 0, res |-> prNone, ins |-> ins]
            ELSE IF b0 < 247
            THEN [number |-> b0 - 139, res |-> prGood, ins |-> Drop(ins, 1)]
            ELSE IF b0 < 251
            THEN IF Len(ins) < 2
                 THEN [number |-> 0, res |-> prInvalid, ins |-> ins]
                 ELSE [number |-> (b0 - 247) * 256 + ins[2] + 108,
                       res |-> prGood, ins |-> Drop(ins, 2)]
            ELSE IF b0 < 255
            THEN IF Len(ins) < 2
                 THEN [number |-> 0, res |-> prInvalid, ins |-> ins]
                 ELSE [number |-> -((b0 - 251) * 256) - ins[2] - 108,
                       res |-> prGood, ins |-> Drop(ins, 2)]
            ELSE [number |-> 0, res |-> prNone, ins |-> ins]

\* topDictOperators: numPop, name and run of the operator b of the 1-byte
\* operators (escaped FALSE) and of the 2-byte operators
NoOperator == [numPop |-> 0, name |-> "", run |-> "nil"]
Operator(numPop, name) == [numPop |-> numPop, name |-> name, run |-> "nil"]
topDictOperators(escaped) ==
    IF ~escaped
    THEN << Operator(1, "version"), Operator(1, "Notice"),
            Operator(1, "FullName"), Operator(1, "FamilyName"),
            Operator(1, "Weight"), Operator(-1, "FontBBox"),
            NoOperator, NoOperator, NoOperator, NoOperator, NoOperator,
            NoOperator, NoOperator,
            Operator(1, "UniqueID"), Operator(-1, "XUID"),
            Operator(1, "charset"), Operator(1, "Encoding"),
            [numPop |-> 1, name |-> "CharStrings", run |-> "charStrings"],
            Operator(2, "Private") >>
    ELSE << Operator(1, "Copyright"), Operator(1, "isFixedPitch"),
            Operator(1, "ItalicAngle"), Operator(1, "UnderlinePosition"),
            Operator(1, "UnderlineThickness"), Operator(1, "PaintType"),
            Operator(1, "CharstringType"), Operator(-1, "FontMatrix"),
            Operator(1, "StrokeWidth"),
            NoOperator, NoOperator, NoOperator, NoOperator, NoOperator,
            NoOperator, NoOperator, NoOperator, NoOperator, NoOperator,
            NoOperator,
            Operator(1, "SyntheticBase"), Operator(1, "PostScript"),
            Operator(1, "BaseFontName"), Operator(-2, "BaseFontBlend"),
            NoOperator, NoOperator, NoOperator, NoOperator, NoOperator,
            NoOperator,
            Operator(3, "ROS"), Operator(1, "CIDFontVersion"),
            Operator(1, "CIDFontRevision"), Operator(1, "CIDFontType"),
            Operator(1, "CIDCount"), Operator(1, "UIDBase"),
            Operator(1, "FDArray"), Operator(1, "FDSelect"),
            Operator(1, "FontName") >>

\* A cffParser about to interpret the Top DICT data buf
NewParser(buf) ==
    [instructions |-> buf, a |-> [i \in 1..psStackSize |-> 0], top |-> 0,
     err |-> NoError, charStrings |-> 0, panicked |-> FALSE]

\* "p.stack.a[p.stack.top] = number; p.stack.top++" behind its test; an
\* index beyond the array panics.
pushUnchecked(p, number, res) ==
    IF res < 0
    THEN [p EXCEPT !.err = IF res = prUnsupportedRNE
                           THEN errUnsupportedRealNumberEncoding
                           ELSE errInvalidCFFTable]
    ELSE IF p.top >= psStackSize THEN [p EXCEPT !.top = @ + 1, !.panicked = TRUE]
    ELSE [p EXCEPT !.a[p.top + 1] = number, !.top = @ + 1]

push(p, number, res) ==
    IF res < 0 \/ p.top = psStackSize
    THEN [p EXCEPT !.err = IF res = prUnsupportedRNE
                           THEN errUnsupportedRealNumberEncoding
                           ELSE errInvalidCFFTable]
    ELSE [p EXCEPT !.a[p.top + 1] = number, !.top = @ + 1]

\* The operator op is executed
execute(p, op) ==
    IF p.top < op.numPop THEN [p EXCEPT !.err = errInvalidCFFTable]
    ELSE LET ran == IF op.run = "charStrings"
                    THEN [p EXCEPT !.charStrings = p.a[p.top]]
                    ELSE p
         IN IF op.numPop < 0 THEN [ran EXCEPT !.top = 0]
            ELSE [ran EXCEPT !.top = @ - op.numPop]

\* The operator the instructions ins start with: whether there is one, the
\* instructions left and the operator
NextOperator(ins) ==
    LET b0 == Head(ins)
        escaped == b0 = escapeByte
        missing == escaped /\ Len(ins) < 2
        b == IF escaped /\ ~missing THEN ins[2] ELSE b0
        ops == topDictOperators(escaped)
    IN [missing |-> missing,
        ins |-> IF missing THEN Drop(ins, 1)
                ELSE Drop(ins, IF escaped THEN 2 ELSE 1),
        known |-> ~missing /\ b < Len(ops) /\ ops[b + 1].name # "",
        op |-> IF ~missing /\ b < Len(ops) THEN ops[b + 1] ELSE NoOperator]

\* cffParser.step
step(p) ==
    LET n == parseNumber(p.instructions)
    IN IF n.res # prNone
       THEN push([p EXCEPT !.instructions = n.ins], n.number, n.res)
       ELSE LET o == NextOperator(n.ins)
                q == [p EXCEPT !.instructions = o.ins]
            IN IF o.missing THEN [q EXCEPT !.err = errInvalidCFFTable]
               ELSE IF o.known THEN execute(q, o.op)
               ELSE [q EXCEPT !.err = errUnrecognizedOperator]

\* ------------------------------------------------------------ the actions

\* The value of call after a call other than Draw
NoDraw == [op |-> "none"]

\* The value of script when the caller follows none
NoScript == [contours |-> <<>>, pc |-> 1]

SetZ(z) ==
    /\ size' = z.size
    /\ bufF32' = z.bufF32
    /\ lenF32' = z.lenF32
    /\ bufU32' = z.bufU32
    /\ lenU32' = z.lenU32
    /\ first' = z.first
    /\ pen' = z.pen
    /\ DrawOp' = z.DrawOp

\* z := NewRasterizer(w, h)
New(w, h) ==
    /\ size = NewRasterizer(w, h).size
    /\ bufF32 = NewRasterizer(w, h).bufF32
    /\ lenF32 = NewRasterizer(w, h).lenF32
    /\ bufU32 = NewRasterizer(w, h).bufU32
    /\ lenU32 = NewRasterizer(w, h).lenU32
    /\ first = NewRasterizer(w, h).first
    /\ pen = NewRasterizer(w, h).pen
    /\ DrawOp = NewRasterizer(w, h).DrawOp
    /\ nsegs = 0
    /\ nresets = 0
    /\ fresh = NewRasterizer(w, h)
    /\ call = NoDraw
    /\ panicked = FALSE

Init ==
    /\ \E sz \in Sizes : New(sz[1], sz[2])
    /\ script = NoScript
    /\ NoOthers

\* A panic ends the program.
Running == ~panicked

Reset(w, h) ==
    /\ Running
    /\ nresets' = nresets + 1
    /\ SetZ(ResetZ(Z, w, h))
    /\ fresh' = NewRasterizer(w, h)
    /\ nsegs' = 0
    /\ call' = NoDraw
    /\ UNCHANGED panicked

MoveTo(a) ==
    /\ Running
    /\ SetZ(MoveToZ(Z, a))
    /\ fresh' = MoveToZ(fresh, a)
    /\ call' = NoDraw
    /\ UNCHANGED <<nsegs, nresets, panicked>>

\* A panic of floatingLineTo ends the call and the program; the fields it
\* leaves are then of no account.
LineTo(b) ==
    /\ Running
    /\ SetZ(LineToZ(Z, b))
    /\ fresh' = LineToZ(fresh, b)
    /\ nsegs' = nsegs + 1
    /\ call' = NoDraw
    /\ panicked' = floatingLineToPanics(lenF32, size, pen, b)
    /\ UNCHANGED nresets

ClosePath ==
    /\ Running
    /\ SetZ(ClosePathZ(Z))
    /\ fresh' = ClosePathZ(fresh)
    /\ nsegs' = nsegs + 1
    /\ call' = NoDraw
    /\ panicked' = floatingLineToPanics(lenF32, size, pen, first)
    /\ UNCHANGED nresets

\* The caller's "z.DrawOp = op"
SetDrawOp(op) ==
    /\ Running
    /\ DrawOp # op
    /\ DrawOp' = op
    /\ fresh' = [fresh EXCEPT !.DrawOp = op]
    /\ call' = NoDraw
    /\ UNCHANGED <<size, bufF32, lenF32, bufU32, lenU32, first, pen, nsegs,
                   nresets, panicked>>

Draw(dst, r, s) ==
    /\ Running
    /\ LET res == DrawZ(Z, dst, r, s)
           fr == DrawZ(fresh, dst, r, s)
       IN /\ SetZ(res.z)
          /\ fresh' = fr.z
          /\ call' = [op |-> "Draw", dst0 |-> dst, r |-> r, src |-> s,
                      dst |-> res.dst,
                      freshDst |-> fr.dst, freshPanicked |-> fr.panicked]
          /\ panicked' = res.panicked
    /\ UNCHANGED <<nsegs, nresets>>

\* Runs with Reset: any calls on few points, at most MaxResets calls of
\* Reset and at most MaxSegs segments after each, all of them segments on
\* which the model's arithmetic is the code's.
Next ==
    \/ \E sz \in Sizes :
          nresets < MaxResets /\ Reset(sz[1], sz[2]) /\ UNCHANGED <<script, others>>
    \/ \E a \in ResetPoints : MoveTo(a) /\ UNCHANGED <<script, others>>
    \/ \E b \in ResetPoints :
          nsegs < MaxSegs /\ ExactSeg(pen, b) /\ LineTo(b) /\ UNCHANGED <<script, others>>
    \/ nsegs < MaxSegs /\ ExactSeg(pen, first) /\ ClosePath /\ UNCHANGED <<script, others>>
    \/ \E op \in {Over, Src} : SetDrawOp(op) /\ UNCHANGED <<script, others>>
    \/ \E i \in 1..Len(ResetDrawArgs(size)) :
          /\ Draw(ResetDrawArgs(size)[i][1], ResetDrawArgs(size)[i][2],
                  ResetDrawArgs(size)[i][3])
          /\ UNCHANGED <<script, others>>

Spec == Init /\ [][Next]_vars

\* Runs of Draw: a Rasterizer whose path commands have left some coverage
\* buffer is given one Draw call, of any arguments and either operator.
\* The path commands are counted as one segment.
InitDraw ==
    \E sz \in DrawSizes :
      \E buf \in [1..(sz[1] * sz[2]) -> CoverageValues] :
        /\ size = sz
        /\ bufF32 = buf
        /\ lenF32 = sz[1] * sz[2]
        /\ bufU32 = <<>>
        /\ lenU32 = 0
        /\ first = <<0, 0>>
        /\ pen = <<0, 0>>
        /\ DrawOp = Over
        /\ nsegs = 1
        /\ nresets = 0
        /\ fresh = [NewRasterizer(sz[1], sz[2]) EXCEPT !.bufF32 = buf]
        /\ call = NoDraw
        /\ panicked = FALSE
        /\ script = NoScript
        /\ NoOthers

NextDraw ==
    \/ \E op \in {Over, Src} :
          call.op = "none" /\ SetDrawOp(op) /\ UNCHANGED <<script, others>>
    \/ \E i \in 1..Len(DrawArgs(size)) :
          /\ call.op = "none"
          /\ Draw(DrawArgs(size)[i][1], DrawArgs(size)[i][2],
                  DrawArgs(size)[i][3])
          /\ UNCHANGED <<script, others>>

SpecDraw == InitDraw /\ [][NextDraw]_vars

\* Runs of two contours: the caller draws a rectangle and a second one
\* inside it or on it, of either direction each, one call at a time, and
\* calls Draw once, when it has closed a contour or drawn none.
InitContours ==
    /\ New(ContourW, ContourH)
    /\ NoOthers
    /\ \E c1 \in RectContours : \E c2 \in RectContours :
          /\ Within(c2, c1)
          /\ script = [contours |-> <<c1, c2>>, pc |-> 1]

\* The next call of the script, if Draw has not been called
NextCmd ==
    IF call.op = "none" /\ script.pc <= Len(Cmds(script.contours))
    THEN Cmds(script.contours)[script.pc]
    ELSE <<"none", <<0, 0>>>>

Step == script' = [script EXCEPT !.pc = @ + 1] /\ UNCHANGED others

NextContours ==
    \/ NextCmd[1] = "MoveTo" /\ MoveTo(NextCmd[2]) /\ Step
    \/ NextCmd[1] = "LineTo" /\ LineTo(NextCmd[2]) /\ Step
    \/ NextCmd[1] = "ClosePath" /\ ClosePath /\ Step
    \/ \E i \in 1..Len(ContourDrawArgs(size)) :
          /\ call.op = "none"
          /\ NextCmd[1] \in {"MoveTo", "none"}
          /\ Draw(ContourDrawArgs(size)[i][1], ContourDrawArgs(size)[i][2],
                  ContourDrawArgs(size)[i][3])
          /\ UNCHANGED <<script, others>>

SpecContours == InitContours /\ [][NextContours]_vars

\* Runs of one path: the caller draws a closed polygon and calls Draw, or
\* draws one segment anywhere, or moves the pen in the middle of a contour,
\* or draws curves and asks for the pen, one call at a time.
QuadTo(b, c) ==
    /\ Running
    /\ SetZ(QuadToZ(Z, b, c))
    /\ fresh' = QuadToZ(fresh, b, c)
    /\ nsegs' = nsegs + Len(QuadPoints(pen, b, c))
    /\ call' = [op |-> "QuadTo", a |-> pen, lines |-> QuadPoints(pen, b, c)]
    /\ LET pts == QuadPoints(pen, b, c)
       IN panicked' = \E i \in 1..Len(pts) :
                         floatingLineToPanics(lenF32, size,
                             IF i = 1 THEN pen ELSE pts[i - 1], pts[i])
    /\ UNCHANGED nresets

CubeTo(b, c, d) ==
    /\ Running
    /\ SetZ(CubeToZ(Z, b, c, d))
    /\ fresh' = CubeToZ(fresh, b, c, d)
    /\ nsegs' = nsegs + Len(CubePoints(pen, b, c, d))
    /\ call' = [op |-> "CubeTo", a |-> pen,
                lines |-> CubePoints(pen, b, c, d)]
    /\ LET pts == CubePoints(pen, b, c, d)
       IN panicked' = \E i \in 1..Len(pts) :
                         floatingLineToPanics(lenF32, size,
                             IF i = 1 THEN pen ELSE pts[i - 1], pts[i])
    /\ UNCHANGED nresets

\* The caller's "p := z.Pen()"
PenCall ==
    /\ Running
    /\ call' = [op |-> "Pen", result |-> Pen(Z), z |-> Z]
    /\ UNCHANGED <<size, bufF32, lenF32, bufU32, lenU32, first, pen, DrawOp,
                   nsegs, nresets, fresh, panicked>>

PathScript(kind, poly, cmds) ==
    [contours |-> <<>>, pc |-> 1, kind |-> kind, poly |-> poly,
     cmds |-> cmds]

InitPath ==
    /\ New(ContourW, ContourH)
    /\ NoOthers
    /\ \/ \E vs \in Polygons :
             script = PathScript("polygon", vs, PolyCmds(vs) \o DrawTail)
       \/ \E p \in SegPoints : \E q \in SegPoints :
             /\ ExactSeg(p, q)
             /\ script = PathScript("segment", <<>>,
                                    << <<"MoveTo", p>>, <<"LineTo", q>> >>)
       \/ \E p \in MidPoints : \E q \in MidPoints :
          \E r \in MidPoints : \E s \in MidPoints :
          \E k \in 1..Len(OpPrefixes) :
             /\ ExactSeg(p, q) /\ ExactSeg(r, s)
             /\ script = PathScript("moves", <<>>,
                               OpPrefixes[k]
                               \o << <<"MoveTo", p>>, <<"LineTo", q>>,
                                     <<"MoveTo", r>>, <<"LineTo", s>>,
                                     <<"ClosePath", r>>, <<"Pen">> >>)
       \/ \E a \in CurvePoints : \E b \in CurvePoints : \E c \in CurvePoints :
             /\ ExactQuad(a, b, c) /\ ExactSeg(c, a)
             /\ script = PathScript("quad", <<>>,
                               << <<"MoveTo", a>>, <<"Pen">>,
                                  <<"QuadTo", b, c>>, <<"Pen">>,
                                  <<"LineTo", a>>, <<"Pen">> >>)
       \/ \E a \in CubicPoints : \E b \in CubicPoints :
          \E c \in CubicPoints : \E d \in CubicPoints :
             /\ ExactCube(a, b, c, d)
             /\ script = PathScript("cube", <<>>,
                               << <<"MoveTo", a>>, <<"CubeTo", b, c, d>>,
                                  <<"Pen">> >>)

\* The next call of the path's script
PathCmd ==
    IF script.pc <= Len(script.cmds) THEN script.cmds[script.pc]
    ELSE <<"none">>

NextPath ==
    \/ PathCmd[1] = "MoveTo" /\ MoveTo(PathCmd[2]) /\ Step
    \/ PathCmd[1] = "LineTo" /\ LineTo(PathCmd[2]) /\ Step
    \/ PathCmd[1] = "ClosePath" /\ ClosePath /\ Step
    \/ PathCmd[1] = "QuadTo" /\ QuadTo(PathCmd[2], PathCmd[3]) /\ Step
    \/ PathCmd[1] = "CubeTo"
          /\ CubeTo(PathCmd[2], PathCmd[3], PathCmd[4]) /\ Step
    \/ PathCmd[1] = "Pen" /\ PenCall /\ Step
    \/ PathCmd[1] = "SetDrawOp" /\ SetDrawOp(PathCmd[2]) /\ Step
    \/ PathCmd[1] = "Draw"
          /\ Draw(PathDrawArgs(size)[PathCmd[2]][1],
                  PathDrawArgs(size)[PathCmd[2]][2],
                  PathDrawArgs(size)[PathCmd[2]][3])
          /\ Step

SpecPath == InitPath /\ [][NextPath]_vars

\* Runs that draw one closed polygon that reaches beyond the left or the
\* right edge of the buffer
InitClip ==
    /\ New(ContourW, ContourH)
    /\ NoOthers
    /\ \E vs \in ClipPolygons :
          script = PathScript("clipped", vs, PolyCmds(vs) \o DrawTail)

NextClip ==
    \/ PathCmd[1] = "MoveTo" /\ MoveTo(PathCmd[2]) /\ Step
    \/ PathCmd[1] = "LineTo" /\ LineTo(PathCmd[2]) /\ Step
    \/ PathCmd[1] = "ClosePath" /\ ClosePath /\ Step
    \/ PathCmd[1] = "SetDrawOp" /\ SetDrawOp(PathCmd[2]) /\ Step
    \/ PathCmd[1] = "Draw"
          /\ Draw(PathDrawArgs(size)[PathCmd[2]][1],
                  PathDrawArgs(size)[PathCmd[2]][2],
                  PathDrawArgs(size)[PathCmd[2]][3])
          /\ Step

SpecClip == InitClip /\ [][NextClip]_vars

\* Runs that draw in the middle of a path: the caller moves the pen, adds a
\* segment, calls Draw twice, adds a second segment to the open contour and
\* calls Draw again, each Draw on the fast or on the general path.
InitRedraw ==
    /\ New(ContourW, ContourH)
    /\ NoOthers
    /\ \E p \in MidPoints : \E q \in MidPoints : \E r \in MidPoints :
       \E i \in 1..Len(ContourDrawArgs(<<ContourW, ContourH>>)) :
       \E j \in 1..Len(ContourDrawArgs(<<ContourW, ContourH>>)) :
       \E k \in 1..Len(OpPrefixes) :
          /\ ExactSeg(p, q) /\ ExactSeg(q, r)
          /\ script = PathScript("redraw", <<>>,
                            OpPrefixes[k]
                            \o << <<"MoveTo", p>>, <<"LineTo", q>>,
                                  <<"Draw", i>>, <<"Draw", j>>,
                                  <<"LineTo", r>>, <<"Draw", i>> >>)

NextRedraw ==
    \/ PathCmd[1] = "MoveTo" /\ MoveTo(PathCmd[2]) /\ Step
    \/ PathCmd[1] = "LineTo" /\ LineTo(PathCmd[2]) /\ Step
    \/ PathCmd[1] = "SetDrawOp" /\ SetDrawOp(PathCmd[2]) /\ Step
    \/ PathCmd[1] = "Draw"
          /\ Draw(ContourDrawArgs(size)[PathCmd[2]][1],
                  ContourDrawArgs(size)[PathCmd[2]][2],
                  ContourDrawArgs(size)[PathCmd[2]][3])
          /\ Step

SpecRedraw == InitRedraw /\ [][NextRedraw]_vars

\* Runs of the source-over arithmetic: one pixel of colour d, a source of
\* colour s and a mask value ma are composited.
InitOver ==
    /\ New(1, 1)
    /\ NoOthers
    /\ \E s \in Premultiplied : \E d \in Premultiplied : \E ma \in Channels :
          script = [contours |-> <<>>, pc |-> 1, kind |-> "pixel", s |-> s,
                    d |-> d, ma |-> ma]

CompositePixel ==
    /\ script.pc = 1
    /\ call' = [op |-> "OverPixel",
                out |-> OverPixel(script.s, script.d, script.ma),
                sums |-> OverSums(script.s, script.d, script.ma)]
    /\ UNCHANGED <<size, bufF32, lenF32, bufU32, lenU32, first, pen, DrawOp,
                   nsegs, nresets, fresh, panicked>>
    /\ Step

NextOver == CompositePixel

SpecOver == InitOver /\ [][NextOver]_vars

\* Runs of two Rasterizers: each is given its own calls, and the calls of
\* the two are made in any order.
InitTwo ==
    /\ New(0, 0)
    /\ script = NoScript
    /\ bitReader = <<>>
    /\ cffParser = <<>>
    /\ \E s1 \in TwoSizes : \E s2 \in TwoSizes :
       \E k1 \in 1..Len(Programs) : \E k2 \in 1..Len(Programs) :
          LET n1 == NewOnHeap(<<>>, s1[1], s1[2], Programs[k1])
              n2 == NewOnHeap(n1.heap, s2[1], s2[2], Programs[k2])
          IN /\ heap = n2.heap
             /\ rasterizers = <<n1.r, n2.r>>

\* The next call of the Rasterizer i
CallOn(i) ==
    /\ rasterizers[i].pc <= Len(rasterizers[i].prog)
    /\ LET r == rasterizers[i]
           after == ApplyOp([z |-> Load(heap, r), dst |-> r.dst],
                            r.prog[r.pc])
           stored == Store(heap, r, after.z)
       IN /\ heap' = stored.heap
          /\ rasterizers' =
                [rasterizers EXCEPT
                    ![i] = [stored.r EXCEPT !.dst = after.dst, !.pc = @ + 1]]
    /\ UNCHANGED <<size, bufF32, lenF32, bufU32, lenU32, first, pen, DrawOp,
                   nsegs, nresets, fresh, call, panicked, script, bitReader,
                   cffParser>>

NextTwo == \E i \in 1..2 : CallOn(i)

SpecTwo == InitTwo /\ [][NextTwo]_vars

\* Runs of a bitReader over a stream: nextBit and decode with the mode
\* table, in any order.  consumed counts the bits given out and not put
\* back, and out is what the last call returned.
InitBits ==
    /\ New(0, 0)
    /\ script = NoScript
    /\ heap = <<>>
    /\ rasterizers = <<>>
    /\ cffParser = <<>>
    /\ \E s \in Streams : \E order \in {LSB, MSB} : \E chunks \in Chunks :
       \E eofWithData \in BOOLEAN :
          bitReader =
             [b |-> NewBitReader([data |-> Pack(s, order), chunks |-> chunks,
                                  eofWithData |-> eofWithData], order),
              stream |-> Padded(s), consumed |-> 0,
              out |-> [op |-> "none"]]

NotRasterizer ==
    UNCHANGED <<size, bufF32, lenF32, bufU32, lenU32, first, pen, DrawOp,
                nsegs, nresets, fresh, call, panicked, script>>

NextBit ==
    /\ LET nb == nextBit(bitReader.b)
       IN bitReader' =
             [bitReader EXCEPT
                 !.b = nb.b,
                 !.consumed = IF nb.err = NoError THEN @ + 1 ELSE @,
                 !.out = [op |-> "nextBit", bit |-> nb.bit, err |-> nb.err]]
    /\ NotRasterizer
    /\ UNCHANGED <<heap, rasterizers, cffParser>>

Decode ==
    /\ LET d == decode(bitReader.b, modeTable)
       IN bitReader' =
             [bitReader EXCEPT
                 !.b = d.b,
                 !.consumed = @ + d.n,
                 !.out = [op |-> "decode", val |-> d.val, err |-> d.err]]
    /\ NotRasterizer
    /\ UNCHANGED <<heap, rasterizers, cffParser>>

NextBits == NextBit \/ Decode

SpecBits == InitBits /\ [][NextBits]_vars

\* Runs of the Top DICT interpreter: the loop of parseTopDICT calls step
\* until the instructions are used up or an error is set.  The data are
\* some operands, in every encoding in turn, then an operator or a broken
\* instruction, then one more operand and CharStrings.
MaxOperands == 49
NumberCodes ==
    << <<140>>, <<28, 255, 254>>, <<29, 128, 0, 0, 0>>, <<247, 0>>,
       <<254, 255>>, <<30, 31>>, <<30, 225, 255>> >>
RECURSIVE Operands(_)
Operands(n) ==
    IF n = 0 THEN <<>>
    ELSE Operands(n - 1) \o NumberCodes[((n - 1) % Len(NumberCodes)) + 1]
Tails ==
    {<<17>>, <<18>>, <<5>>, <<12, 23>>, <<12, 30>>, <<12>>, <<6>>, <<19>>,
     <<12, 9>>, <<12, 12>>, <<255>>, <<28, 1>>, <<30, 208>>, <<30, 255>>,
     <<247>>, <<30>> \o [i \in 1..32 |-> 0]}

InitCFF ==
    /\ New(0, 0)
    /\ script = NoScript
    /\ heap = <<>>
    /\ rasterizers = <<>>
    /\ bitReader = <<>>
    /\ \E n \in 0..MaxOperands : \E t \in Tails :
          cffParser = NewParser(Operands(n) \o t \o <<140, 17>>)

StepCFF ==
    /\ Len(cffParser.instructions) > 0
    /\ cffParser.err = NoError
    /\ ~cffParser.panicked
    /\ cffParser' = step(cffParser)
    /\ NotRasterizer
    /\ UNCHANGED <<heap, rasterizers, bitReader>>

NextCFF == StepCFF

SpecCFF == InitCFF /\ [][NextCFF]_vars

\* -------------------------------------------------------------- properties

\* Whether the last call was Draw
Drawn == call.op = "Draw"

\* The integrated coverage of the current buffer, as floatingAccumulateMask
\* computes it, and its value for the pixel (x, y) of the Rasterizer.
Mask == floatingAccumulateMask(Zeros(lenF32), bufF32, lenF32)
MaskOf(x, y) ==
    IF x < size[1] /\ y < size[2] THEN Mask[y * size[1] + x + 1] ELSE 0

\* C1: after NewRasterizer(w, h) and after Reset(w, h), whether Reset made
\* a new buffer or cut the old one, the coverage buffer has w*h entries and
\* every one of them is zero; it stays so until the first segment is
\* accumulated.
ResetZeroesBuffer ==
    /\ lenF32 = size[1] * size[2]
    /\ lenF32 <= Len(bufF32)
    /\ nsegs = 0 => \A i \in 1..lenF32 : bufF32[i] = 0

\* Reset has cut a buffer that held coverage: what lies beyond the new
\* length is still there.
ResetReusedBuffer ==
    /\ nresets > 0
    /\ nsegs = 0
    /\ lenF32 > 0
    /\ \E i \in (lenF32 + 1)..Len(bufF32) : bufF32[i] # 0

\* What a caller can see of a Rasterizer: its size, first, pen, DrawOp and
\* the len(bufF32) entries of its coverage buffer.
Observable(z) ==
    [size |-> z.size, first |-> z.first, pen |-> z.pen, DrawOp |-> z.DrawOp,
     coverage |-> SubSeq(z.bufF32, 1, z.lenF32)]

\* C2: a Rasterizer that was Reset(w, h) is the Rasterizer NewRasterizer(w,
\* h) returns (same size, pen and first at (0, 0), DrawOp Over, a zero
\* coverage buffer): given the same path commands it shows the same state,
\* and Draw gives the same destination and the same outcome.
ResetIsNewRasterizer ==
    /\ Observable(Z) = Observable(fresh)
    /\ Drawn => call.dst = call.freshDst /\ panicked = call.freshPanicked

\* Draw has changed the destination from a Rasterizer that was Reset with a
\* segment accumulated since, its buffer longer than its size.
DrawAfterReset ==
    /\ Drawn
    /\ nresets > 0
    /\ nsegs > 0
    /\ Len(bufF32) > lenF32
    /\ call.dst # call.dst0

\* What the general path of Draw gives for the arguments of the last call
GeneralResult ==
    GeneralDraw(DrawOp, call.dst0, call.r, call.src, size, bufF32, lenF32,
                Zeros(0))

\* C3: for a uniform opaque source and an alpha destination whose bounds,
\* the rectangle r and the Rasterizer's bounds are equal, Draw (which takes
\* the fast path) leaves the destination the general path leaves, with
\* either operator.
FastPathIsGeneralPath ==
    ( /\ Drawn
      /\ FastPath(call.dst0, call.src)
      /\ call.r = call.dst0.rect
      /\ call.r = Bounds(size) )
    => call.dst = GeneralResult.dst /\ ~panicked

\* Whether every pixel of the rectangle of the last Draw has a mask value:
\* the rectangle is no wider and no higher than the Rasterizer.
MaskCoversRect == RectDx(call.r) <= size[1] /\ RectDy(call.r) <= size[2]

\* C4: for a uniform opaque source and an alpha destination whose bounds,
\* the rectangle r and the Rasterizer's bounds are not all equal, Draw
\* falls back on the general path: it leaves the destination the general
\* path leaves (stated for the rectangles the mask covers).
GeneralPathIsFallback ==
    ( /\ Drawn
      /\ FastPath(call.dst0, call.src)
      /\ ~(call.r = call.dst0.rect /\ call.r = Bounds(size))
      /\ MaskCoversRect )
    => call.dst = GeneralResult.dst /\ ~panicked

\* The source-over formula: a = 0xffff - sa*ma/0xffff and
\* out = (d*a + s*ma)/0xffff for every channel.
SourceOver(s, d, ma) ==
    LET a == 65535 - MulDiv(s[4], ma)
    IN [c \in 1..4 |-> SumDiv(d[c], a, s[c], ma)]

\* The source-copy formula: out = s*ma/0xffff for every channel.
SourceCopy(s, ma) == [c \in 1..4 |-> MulDiv(s[c], ma)]

\* The pixels of the rectangle of the last Draw, relative to its corner
DrawnPixels ==
    (0..(RectDx(call.r) - 1)) \X (0..(RectDy(call.r) - 1))

\* Whether the pixel p of the rectangle of the last Draw holds the colour
\* out, as the destination's colour model stores it
HoldsColour(p, out) ==
    LET x == call.r[1] + p[1]
        y == call.r[2] + p[2]
    IN At(call.dst, x, y) = At(Set(call.dst0, x, y, out), x, y)

\* C5: with the operator Over, Draw sets every pixel of r to
\* (d*a + s*ma)/0xffff in every channel, where a = 0xffff - sa*ma/0xffff, d
\* is the pixel's colour before, s the source's and ma the pixel's mask
\* value; for an opaque source the alpha is ma + da*(0xffff - ma)/0xffff
\* (stated for the rectangles the mask covers).
SourceOverFormula ==
    (Drawn /\ DrawOp = Over /\ MaskCoversRect) =>
        /\ ~panicked
        /\ \A p \in DrawnPixels :
              LET d == At(call.dst0, call.r[1] + p[1], call.r[2] + p[2])
                  ma == MaskOf(p[1], p[2])
                  out == SourceOver(call.src, d, ma)
              IN /\ HoldsColour(p, out)
                 /\ call.src[4] = 65535 =>
                        out[4] = ma + MulDiv(d[4], 65535 - ma)

\* C6: with the operator Src, Draw sets every pixel of r to s*ma/0xffff in
\* every channel, whatever the pixel held before (stated for the
\* rectangles the mask covers).
SourceCopyFormula ==
    (Drawn /\ DrawOp = Src /\ MaskCoversRect) =>
        /\ ~panicked
        /\ \A p \in DrawnPixels :
              HoldsColour(p, SourceCopy(call.src, MaskOf(p[1], p[2])))

\* Whether every channel of every pixel of img is zero
IsZero(img) ==
    \A i \in 1..Len(img.pix) :
        img.pix[i] = (IF img.kind = "Alpha" THEN 0 ELSE Transparent)

\* What Draw with the operator op gives for the arguments of the last call
DrawWith(op) ==
    DrawZ([Z EXCEPT !.DrawOp = op], call.dst0, call.r, call.src)

\* C7: for a fully opaque source and a destination that is zero in every
\* channel, Draw with Over and Draw with Src leave the same destination
\* (and end the same way).
OverIsSrcOnZero ==
    (Drawn /\ call.src[4] = 65535 /\ IsZero(call.dst0)) =>
        /\ DrawWith(Over).dst = DrawWith(Src).dst
        /\ DrawWith(Over).panicked = DrawWith(Src).panicked
        /\ call.dst = DrawWith(DrawOp).dst

\* Draw on the general path has drawn partial coverage of an opaque source
\* onto a zero destination.
DrewOpaqueOnZero ==
    /\ Drawn
    /\ call.src[4] = 65535
    /\ IsZero(call.dst0)
    /\ ~FastPath(call.dst0, call.src)
    /\ call.dst # call.dst0
    /\ \E i \in 1..lenU32 : 0 < bufU32[i] /\ bufU32[i] < 65535

\* C8: Draw with a rectangle r of zero area (or an empty one of negative
\* width or height) leaves the destination as it was and does not panic, on
\* the fast path and on the general path, with either operator.
ZeroAreaIsNoOp ==
    (Drawn /\ (RectDx(call.r) <= 0 \/ RectDy(call.r) <= 0)) =>
        call.dst = call.dst0 /\ ~panicked

\* Draw on the general path was given a rectangle of zero area inside the
\* destination, with coverage in the buffer.
DrewZeroArea ==
    /\ Drawn
    /\ RectDx(call.r) = 0
    /\ InRect(call.r[1], call.r[2], call.dst0.rect)
    /\ ~FastPath(call.dst0, call.src)
    /\ \E i \in 1..lenU32 : bufU32[i] = 65535

\* Whether the pixel (x, y) lies inside the rectangular contour c
Inside(c, x, y) == c.x0 <= x /\ x < c.x1 /\ c.y0 <= y /\ y < c.y1

\* Whether the caller has drawn both contours of its script and called Draw
ContoursDrawn ==
    /\ Drawn
    /\ Len(script.contours) = 2
    /\ script.pc > Len(Cmds(script.contours))

\* The pixels of the Rasterizer
Pixels == (0..(size[1] - 1)) \X (0..(size[2] - 1))

\* The coverage Draw gave the pixel p of a zeroed destination
Drew(p) == At(call.dst, p[1], p[2])[4]

\* C9: the integrated coverage of every pixel lies between 0 and 0xffff,
\* whatever the path commands were (after each of them, and in the mask
\* buffer Draw fills); after two identical closed contours of the same
\* direction, the pixels inside them have exactly full coverage, 0xffff.
CoverageIsClamped ==
    /\ \A i \in 1..lenF32 : 0 <= Mask[i] /\ Mask[i] <= 65535
    /\ \A i \in 1..lenU32 : 0 <= bufU32[i] /\ bufU32[i] <= 65535
    /\ Drawn => \A p \in Pixels : 0 <= Drew(p) /\ Drew(p) <= 65535
    /\ (ContoursDrawn /\ script.contours[1] = script.contours[2]) =>
          \A p \in Pixels :
              Inside(script.contours[1], p[1], p[2]) =>
                 /\ Drew(p) = 65535
                 /\ lenU32 > 0 => bufU32[p[2] * size[1] + p[1] + 1] = 65535

\* Two identical contours were drawn: the running sum of the buffer is
\* twice the full coverage inside them, and some pixel lies outside.
DrewContourTwice ==
    /\ ContoursDrawn
    /\ script.contours[1] = script.contours[2]
    /\ lenU32 > 0
    /\ \E i \in 1..lenF32 : Abs(Acc(bufF32, i)) = 2 * AreaUnit
    /\ \E p \in Pixels : Drew(p) = 0

\* C10: after a closed contour and, inside it, a closed contour of the
\* other direction, the pixels inside the inner contour have coverage zero
\* and the pixels inside the outer contour and outside the inner one have
\* full coverage.
HoleIsEmpty ==
    ContoursDrawn =>
        LET outer == script.contours[1]
            inner == script.contours[2]
        IN (outer.dir # inner.dir /\ Within(inner, outer))
           => \A p \in Pixels :
                 /\ Inside(inner, p[1], p[2]) => Drew(p) = 0
                 /\ (Inside(outer, p[1], p[2]) /\ ~Inside(inner, p[1], p[2]))
                       => Drew(p) = 65535

\* A contour with a hole was drawn on the general path, the ring around
\* the hole on both sides of it.
DrewHole ==
    /\ ContoursDrawn
    /\ lenU32 > 0
    /\ LET outer == script.contours[1]
           inner == script.contours[2]
       IN /\ outer.dir # inner.dir
          /\ outer.x0 < inner.x0 /\ inner.x1 < outer.x1
          /\ Within(inner, outer)
          /\ \E p \in Pixels : Drew(p) = 65535
          /\ \E p \in Pixels : Inside(inner, p[1], p[2]) /\ Drew(p) = 0

\* The polygon of the path's script, whether its contour has been closed
\* and whether it has been drawn.
Poly == script.poly
PolygonClosed ==
    script.kind = "polygon" /\ script.pc > Len(PolyCmds(Poly))
PolygonDrawn == script.kind = "polygon" /\ Drawn

\* The box around the polygon, in 1/Unit
MinOf(S) == CHOOSE x \in S : \A y \in S : x <= y
MaxOf(S) == CHOOSE x \in S : \A y \in S : y <= x
PolyMinX == MinOf({Poly[i][1] : i \in 1..Len(Poly)})
PolyMaxX == MaxOf({Poly[i][1] : i \in 1..Len(Poly)})
PolyMinY == MinOf({Poly[i][2] : i \in 1..Len(Poly)})
PolyMaxY == MaxOf({Poly[i][2] : i \in 1..Len(Poly)})

IsRectangle == Len(Poly) = 4
PixelAligned ==
    \A i \in 1..Len(Poly) : Poly[i][1] % Unit = 0 /\ Poly[i][2] % Unit = 0

\* Whether the pixel p lies in the box, and whether it lies outside it
InBox(p) ==
    /\ PolyMinX <= p[1] * Unit /\ (p[1] + 1) * Unit <= PolyMaxX
    /\ PolyMinY <= p[2] * Unit /\ (p[2] + 1) * Unit <= PolyMaxY
OffBox(p) ==
    \/ (p[1] + 1) * Unit <= PolyMinX \/ PolyMaxX <= p[1] * Unit
    \/ (p[2] + 1) * Unit <= PolyMinY \/ PolyMaxY <= p[2] * Unit

\* The alpha Draw left in the pixel p of an alpha destination
AlphaOf(p) == call.dst.pix[PixOffset(call.dst, p[1], p[2]) + 1]

\* Draw was called with draw.Src and image.Opaque on a zeroed alpha
\* destination.
SrcOpaqueOnZeroAlpha ==
    /\ Drawn
    /\ DrawOp = Src
    /\ call.src = Opaque
    /\ call.dst0.kind = "Alpha"
    /\ IsZero(call.dst0)

\* C11: after a closed rectangle with pixel-aligned corners inside the
\* buffer, Draw with an opaque uniform source and draw.Src onto a zeroed
\* alpha destination leaves the maximum alpha, 0xff, in every pixel inside
\* the rectangle and zero in every pixel outside it.
AlignedRectangleIsFilled ==
    (PolygonDrawn /\ IsRectangle /\ PixelAligned /\ SrcOpaqueOnZeroAlpha) =>
        \A p \in Pixels : AlphaOf(p) = (IF InBox(p) THEN 255 ELSE 0)

\* A pixel-aligned rectangle that is smaller than the buffer was drawn.
DrewAlignedRectangle ==
    /\ PolygonDrawn /\ IsRectangle /\ PixelAligned /\ SrcOpaqueOnZeroAlpha
    /\ \E p \in Pixels : InBox(p) /\ AlphaOf(p) = 255
    /\ \E p \in Pixels : ~InBox(p) /\ p[1] * Unit < PolyMinX
    /\ \E p \in Pixels : ~InBox(p) /\ PolyMaxX <= p[1] * Unit

\* The coverage of the pixel p in the coverage buffer, after the running
\* sum and the clamp of the accumulate functions, in 1/AreaUnit
CovOf(p) == Coverage(bufF32, p[2] * size[1] + p[1] + 1)

\* The polygon is a rectangle between pixel rows with exactly one vertical
\* edge off the pixel boundaries; whether that edge is the left one, the
\* column it lies in and the share of the column the rectangle covers, in
\* 1/Unit.
OneFractionalEdge ==
    /\ IsRectangle
    /\ PolyMinY % Unit = 0 /\ PolyMaxY % Unit = 0
    /\ (PolyMinX % Unit # 0) # (PolyMaxX % Unit # 0)
FractionalLeft == PolyMinX % Unit # 0
EdgeColumn ==
    IF FractionalLeft THEN PolyMinX \div Unit ELSE PolyMaxX \div Unit
EdgeShare ==
    IF FractionalLeft THEN Unit - (PolyMinX % Unit) ELSE PolyMaxX % Unit

\* The coverage the claim gives the pixel p, in 1/Unit
ShareOf(p) ==
    IF (p[2] + 1) * Unit <= PolyMinY \/ PolyMaxY <= p[2] * Unit THEN 0
    ELSE IF InBox(p) THEN Unit
    ELSE IF p[1] = EdgeColumn THEN EdgeShare
    ELSE 0

\* C12: after a closed rectangle with one vertical edge at x = k + f,
\* 0 < f < 1, the pixels of the column k in the rectangle's rows have the
\* coverage f if the edge is the right one and 1 - f if it is the left
\* one, the pixels of the columns inside have full coverage and those of
\* the columns outside have none; Draw turns the coverage into the alpha
\* of that share of 0xff, rounded down.
FractionalEdgeIsLinear ==
    (PolygonClosed /\ OneFractionalEdge) =>
        \A p \in Pixels :
            /\ Unit * CovOf(p) = ShareOf(p) * AreaUnit
            /\ (Drawn /\ SrcOpaqueOnZeroAlpha) =>
                   /\ Unit * AlphaOf(p) <= 255 * ShareOf(p)
                   /\ 255 * ShareOf(p) < Unit * (AlphaOf(p) + 1)

\* A rectangle whose left edge lies a quarter of a pixel into its column
\* was drawn: the column has three quarters of the full coverage, and
\* there are columns inside and outside.
DrewFractionalEdge ==
    /\ PolygonDrawn /\ OneFractionalEdge /\ SrcOpaqueOnZeroAlpha
    /\ FractionalLeft /\ PolyMinX % Unit = 1
    /\ \E p \in Pixels :
          p[1] = EdgeColumn /\ 4 * CovOf(p) = 3 * AreaUnit /\ AlphaOf(p) = 191
    /\ \E p \in Pixels : InBox(p) /\ AlphaOf(p) = 255
    /\ \E p \in Pixels : p[1] < EdgeColumn /\ AlphaOf(p) = 0

\* The polygon vs moved by d pixels
Translate(vs, d) ==
    [i \in 1..Len(vs) |-> <<vs[i][1] + d[1] * Unit, vs[i][2] + d[2] * Unit>>]

\* The coverage buffer of a new Rasterizer of the same size after the calls
\* that draw the closed polygon vs
PolyBuffer(vs) ==
    ClosePathZ(LinesToZ(MoveToZ(NewRasterizer(size[1], size[2]), vs[1]),
                        Tail(vs))).bufF32

\* The coverage of the pixel (x, y) in the coverage buffer buf: none
\* outside the buffer
CoverageAt(buf, x, y) ==
    IF 0 <= x /\ x < size[1] /\ 0 <= y /\ y < size[2]
    THEN Coverage(buf, y * size[1] + x + 1)
    ELSE 0

\* The integer vectors that can keep a polygon inside the buffer
Shifts == ((-ContourW)..ContourW) \X ((-ContourH)..ContourH)
FitsShifted(d) == \A i \in 1..Len(Poly) : InBuffer(Translate(Poly, d)[i])

\* C13: for a closed polygon inside the buffer and every integer vector d
\* that keeps it inside, the coverage of the translated polygon is the
\* coverage of the polygon shifted by d: coverage'(x+dx, y+dy) =
\* coverage(x, y) for every pixel, and nothing else is covered.
TranslationShiftsCoverage ==
    PolygonClosed =>
        \A d \in Shifts :
            FitsShifted(d) =>
                LET moved == PolyBuffer(Translate(Poly, d))
                IN \A p \in Pixels :
                      /\ CoverageAt(moved, p[1] + d[1], p[2] + d[2]) = CovOf(p)
                      /\ CoverageAt(moved, p[1], p[2])
                            = CoverageAt(bufF32, p[1] - d[1], p[2] - d[2])

\* A triangle that covers a part of a pixel has been drawn, and it can be
\* moved both along x and along y.
DrewMovablePolygon ==
    /\ PolygonClosed
    /\ Len(Poly) = 3
    /\ \E p \in Pixels : 0 < CovOf(p) /\ CovOf(p) < AreaUnit
    /\ \E d \in Shifts : d[1] # 0 /\ d[2] # 0 /\ FitsShifted(d)

\* The segment the next call of the script accumulates, as <<from, to>>:
\* LineTo's from the pen to its argument, ClosePath's from the pen to the
\* start of the contour.
NextSegment ==
    IF PathCmd[1] = "LineTo" THEN <<pen, PathCmd[2]>> ELSE <<pen, first>>

\* The rows a segment from p to q passes through, whether the buffer has
\* them or not
SegmentRows(p, q) ==
    floatingFloor(Min2(p[2], q[2]), Unit)
        ..(floatingCeil(Max2(p[2], q[2]), Unit) - 1)

\* C14: for every segment LineTo or ClosePath accumulates, with end points
\* in the buffer or left of, right of, above or below it, the call does
\* not panic: every slice z.bufF32[low:] it takes has low within the
\* buffer's length, and every addition it executes is to an entry the
\* slice has, at an index in [0, width*height) of the buffer.  The buffer
\* keeps its length, and the entries that change lie in rows of the buffer
\* the segment passes through, or are the first entry after such a row.
WritesStayInBuffer ==
    [][PathCmd[1] \in {"LineTo", "ClosePath"} =>
          LET p == NextSegment[1]
              q == NextSegment[2]
          IN /\ ~panicked'
             /\ \A low \in LineSlices(size, p, q) :
                   0 <= low /\ low <= Len(bufF32)
             /\ \A w \in LineWrites(lenF32, size, p, q) :
                   /\ 0 <= w[3] /\ w[2] + w[3] < Len(bufF32)
                   /\ 0 <= w[2] + w[3] /\ w[2] + w[3] < size[1] * size[2]
             /\ Len(bufF32') = Len(bufF32)
             /\ lenF32' = lenF32
             /\ \A i \in 0..(Len(bufF32) - 1) :
                   bufF32'[i + 1] # bufF32[i + 1] =>
                       /\ i < size[1] * size[2]
                       /\ \E y \in SegmentRows(p, q) :
                             /\ 0 <= y /\ y < size[2]
                             /\ y * size[1] <= i /\ i <= (y + 1) * size[1]]_vars

\* A segment from above and left of the buffer to below it, at its right
\* edge or beyond, has been accumulated.
DrewSegmentAcrossBuffer ==
    /\ script.kind = "segment"
    /\ script.pc = 3
    /\ script.cmds[1][2][1] < 0 /\ script.cmds[1][2][2] < 0
    /\ script.cmds[2][2][1] >= ContourW * Unit
    /\ script.cmds[2][2][2] > ContourH * Unit
    /\ pen = script.cmds[2][2]
    /\ \E i \in 1..lenF32 : bufF32[i] # 0

\* On which side of the edge from the vertex i of the polygon to the next
\* one the point q lies: positive inside, zero on the edge's line.
Sign(n) == IF n > 0 THEN 1 ELSE IF n < 0 THEN -1 ELSE 0
SideOf(i, q) ==
    Sign(Area2(Poly)) * Cross(Poly[i], Poly[(i % Len(Poly)) + 1], q)

\* The corners of the pixel p, in 1/Unit
Corners(p) ==
    {<<p[1] * Unit, p[2] * Unit>>, <<(p[1] + 1) * Unit, p[2] * Unit>>,
     <<p[1] * Unit, (p[2] + 1) * Unit>>,
     <<(p[1] + 1) * Unit, (p[2] + 1) * Unit>>}

\* Whether the pixel p lies inside the convex polygon, and whether it lies
\* outside it: a line along an edge of the polygon or of the pixel
\* separates them.
FullyInside(p) ==
    \A q \in Corners(p) : \A i \in 1..Len(Poly) : SideOf(i, q) >= 0
FullyOutside(p) ==
    \/ OffBox(p)
    \/ \E i \in 1..Len(Poly) : \A q \in Corners(p) : SideOf(i, q) <= 0

\* The running sum of the accumulate functions at the pixel p
SumAt(p) == Acc(bufF32, p[2] * size[1] + p[1] + 1)

\* C15: after a closed polygon, the running sum of the accumulated areas
\* is zero at every pixel to the right of the polygon's rightmost edge,
\* every pixel outside the polygon has zero coverage and every pixel
\* inside it has full coverage, in the coverage buffer and in what Draw
\* leaves.
ClosedPolygonCoverage ==
    PolygonClosed =>
        \A p \in Pixels :
            /\ PolyMaxX <= p[1] * Unit => SumAt(p) = 0
            /\ FullyOutside(p) =>
                  /\ SumAt(p) = 0
                  /\ (Drawn /\ SrcOpaqueOnZeroAlpha) => AlphaOf(p) = 0
            /\ FullyInside(p) =>
                  /\ Abs(SumAt(p)) = AreaUnit
                  /\ CovOf(p) = AreaUnit
                  /\ (Drawn /\ SrcOpaqueOnZeroAlpha) => AlphaOf(p) = 255

\* A triangle has been drawn that has pixels inside it, pixels outside it
\* to its right and pixels on its slanted edge.
DrewTriangle ==
    /\ PolygonDrawn /\ SrcOpaqueOnZeroAlpha
    /\ Len(Poly) = 3
    /\ \E p \in Pixels : FullyInside(p) /\ AlphaOf(p) = 255
    /\ \E p \in Pixels : PolyMaxX <= p[1] * Unit /\ AlphaOf(p) = 0
    /\ \E p \in Pixels :
          ~FullyInside(p) /\ ~FullyOutside(p) /\ 0 < AlphaOf(p)
          /\ AlphaOf(p) < 255

\* The segments that add no area: of no length, horizontal, or entirely
\* above or entirely below the buffer
AddsNothing(a, b) ==
    \/ a = b
    \/ a[2] = b[2]
    \/ a[2] <= 0 /\ b[2] <= 0
    \/ a[2] >= size[2] * Unit /\ b[2] >= size[2] * Unit

\* C16: a LineTo whose segment has no length, is horizontal or lies
\* entirely above or entirely below the buffer leaves the coverage buffer
\* as it was and moves the pen to its argument; it does not fail.
FlatSegmentsAddNothing ==
    [][(PathCmd[1] = "LineTo" /\ AddsNothing(pen, PathCmd[2])) =>
          /\ bufF32' = bufF32
          /\ lenF32' = lenF32
          /\ pen' = PathCmd[2]
          /\ first' = first
          /\ ~panicked']_vars

\* A slanted segment entirely below the buffer has been given to LineTo:
\* the pen is at its end and the buffer is zero.
DrewSegmentBelow ==
    /\ script.kind = "segment"
    /\ script.pc = 3
    /\ script.cmds[1][2][2] >= size[2] * Unit
    /\ script.cmds[2][2][2] > script.cmds[1][2][2]
    /\ script.cmds[2][2][1] # script.cmds[1][2][1]
    /\ script.cmds[1][2][1] < size[1] * Unit
    /\ pen = script.cmds[2][2]
    /\ first = script.cmds[1][2]
    /\ bufF32 = Zeros(lenF32)

\* C17: MoveTo(p), in any state and also in the middle of an open contour,
\* sets first and pen to p and changes nothing else: not the coverage
\* buffer (the contour it leaves is not closed), not the mask buffer, not
\* the size and not DrawOp.
MoveToOnlyMovesPen ==
    [][PathCmd[1] = "MoveTo" =>
          /\ first' = PathCmd[2]
          /\ pen' = PathCmd[2]
          /\ UNCHANGED <<size, bufF32, lenF32, bufU32, lenU32, DrawOp,
                         panicked>>]_vars

\* MoveTo was called in the middle of a contour that had accumulated area
\* and was not closed, with DrawOp set to draw.Src, to a point that is
\* neither the pen nor the start of that contour.
MovedInOpenContour ==
    /\ script.kind = "moves"
    /\ script.pc > 3
    /\ script.cmds[script.pc - 1][1] = "MoveTo"
    /\ script.cmds[script.pc - 2][1] = "LineTo"
    /\ script.cmds[script.pc - 2][2][2] # script.cmds[script.pc - 3][2][2]
    /\ script.cmds[script.pc - 1][2] # script.cmds[script.pc - 2][2]
    /\ script.cmds[script.pc - 1][2] # script.cmds[script.pc - 3][2]
    /\ first = script.cmds[script.pc - 1][2]
    /\ pen = first
    /\ DrawOp = Src
    /\ \E i \in 1..lenF32 : bufF32[i] # 0

\* The latest of the first k calls of the script that is a path command,
\* or 0, and the last argument of a call
RECURSIVE Latest(_)
Latest(k) ==
    IF k = 0 THEN 0
    ELSE IF script.cmds[k][1] \in {"MoveTo", "LineTo", "QuadTo", "CubeTo",
                                   "ClosePath"}
         THEN k
         ELSE Latest(k - 1)
LastArgument(k) == script.cmds[k][Len(script.cmds[k])]

\* The latest of the first k calls of the script that is a MoveTo, LineTo,
\* QuadTo or CubeTo, or 0
RECURSIVE LatestXxxTo(_)
LatestXxxTo(k) ==
    IF k = 0 THEN 0
    ELSE IF script.cmds[k][1] \in {"MoveTo", "LineTo", "QuadTo", "CubeTo"}
         THEN k
         ELSE LatestXxxTo(k - 1)

\* The start of the contour after the first k calls of the script: the
\* argument of the latest MoveTo, or the origin
RECURSIVE ContourStart(_)
ContourStart(k) ==
    IF k = 0 THEN <<0, 0>>
    ELSE IF script.cmds[k][1] = "MoveTo" THEN script.cmds[k][2]
         ELSE ContourStart(k - 1)

\* Where the calls made so far have left the pen: at the last argument of
\* the latest MoveTo, LineTo, QuadTo or CubeTo, unless ClosePath was called
\* after it, which takes the pen to the start of the contour.
PenAfterCalls ==
    LET k == Latest(script.pc - 1)
    IN IF k = 0 THEN <<0, 0>>
       ELSE IF script.cmds[k][1] = "ClosePath" THEN ContourStart(k)
            ELSE LastArgument(k)

\* C18: after any calls, Pen() is the last argument of the most recent
\* MoveTo, LineTo, QuadTo or CubeTo call, or the start of the contour if
\* ClosePath was called since; a call of Pen returns that point and
\* leaves every field of the Rasterizer as it was.
PenIsLastArgumentOrStart ==
    /\ Pen(Z) = PenAfterCalls
    /\ call.op = "Pen" => call.result = PenAfterCalls /\ Z = call.z

\* C18 as claimed: after any calls of which one is a MoveTo, LineTo, QuadTo
\* or CubeTo, Pen() is the last argument of the most recent of these, and
\* a call of Pen returns it and leaves every field of the Rasterizer as it
\* was.
PenIsLastArgument ==
    /\ LatestXxxTo(script.pc - 1) > 0 =>
          /\ Pen(Z) = LastArgument(LatestXxxTo(script.pc - 1))
          /\ call.op = "Pen" =>
                call.result = LastArgument(LatestXxxTo(script.pc - 1))
    /\ call.op = "Pen" => Z = call.z

\* Pen was called after a ClosePath that closed a contour whose latest
\* LineTo had not ended at its start, and after a MoveTo in the middle of
\* an earlier contour: it returned the start of the closed contour.
AskedPenAfterClosePath ==
    /\ script.kind = "moves"
    /\ call.op = "Pen"
    /\ script.cmds[script.pc - 2][1] = "ClosePath"
    /\ script.cmds[script.pc - 3][1] = "LineTo"
    /\ script.cmds[script.pc - 4][1] = "MoveTo"
    /\ call.result = script.cmds[script.pc - 4][2]
    /\ call.result # script.cmds[script.pc - 3][2]
    /\ call.result # <<0, 0>>

\* Pen was called after a QuadTo whose end is neither its control point
\* nor the start of the contour.
AskedPenAfterCurve ==
    /\ script.kind = "quad"
    /\ call.op = "Pen"
    /\ script.cmds[script.pc - 2][1] = "QuadTo"
    /\ call.result = script.cmds[script.pc - 2][3]
    /\ call.result # script.cmds[script.pc - 2][2]
    /\ call.result # first

\* C19: ClosePath does what LineTo(first) does: it accumulates the segment
\* from the pen to the start of the contour and nothing else, the pen is
\* at the start of the contour afterwards and the start is unchanged.
ClosePathIsLineToFirst ==
    [][PathCmd[1] = "ClosePath" =>
          /\ bufF32' = LineToZ(Z, first).bufF32
          /\ pen' = LineToZ(Z, first).pen
          /\ pen' = first
          /\ first' = first
          /\ UNCHANGED <<size, lenF32, bufU32, lenU32, DrawOp, panicked>>]_vars

\* ClosePath has closed a contour whose pen was not at its start, and the
\* closing segment has height.
ClosedOpenContour ==
    /\ script.pc > 2
    /\ script.cmds[script.pc - 1][1] = "ClosePath"
    /\ script.cmds[script.pc - 2][1] = "LineTo"
    /\ script.cmds[script.pc - 2][2] # first
    /\ pen = first
    /\ first = script.cmds[script.pc - 1][2]
    /\ script.cmds[script.pc - 2][2][2] # first[2]
    /\ \E i \in 1..lenF32 : bufF32[i] # 0

\* The deviation |a - 2b + c|^2 of the curve from a via b to c, in
\* 1/Unit^2, and whether it is at or above the tolerance 0.333
Deviation(a, b, c) ==
    (a[1] - 2 * b[1] + c[1]) * (a[1] - 2 * b[1] + c[1])
    + (a[2] - 2 * b[2] + c[2]) * (a[2] - 2 * b[2] + c[2])
AtTolerance(d) == 1000 * d >= 333 * Unit * Unit

\* floor(sqrt(sqrt(3 * d))) and ceil(sqrt(sqrt(3 * d))) for the deviation
\* d in 1/Unit^2
RootDown(d) ==
    CHOOSE k \in 0..16 :
        /\ k * k * k * k * Unit * Unit <= 3 * d
        /\ 3 * d < (k + 1) * (k + 1) * (k + 1) * (k + 1) * Unit * Unit
RootUp(d) ==
    CHOOSE k \in 0..16 :
        /\ 3 * d <= k * k * k * k * Unit * Unit
        /\ k = 0 \/ (k - 1) * (k - 1) * (k - 1) * (k - 1) * Unit * Unit < 3 * d

\* Whether p is the point of the curve from a via b to c at the parameter
\* i/n, by repeated linear interpolation
IsCurvePoint(p, i, n, a, b, c) ==
    \A k \in 1..2 :
        n * n * p[k] =
            (n - i) * ((n - i) * a[k] + i * b[k])
            + i * ((n - i) * b[k] + i * c[k])

\* Whether the step is a QuadTo that gives LineTo exactly n segments: the
\* points of the curve at i/n for i = 1..n-1, in this order, and then its
\* end.
QuadToEmits(n, a, b, c) ==
    /\ call'.op = "QuadTo"
    /\ Len(call'.lines) = n
    /\ nsegs' = nsegs + n
    /\ \A i \in 1..(n - 1) : IsCurvePoint(call'.lines[i], i, n, a, b, c)
    /\ call'.lines[n] = c
    /\ bufF32' = LinesToZ(Z, call'.lines).bufF32
    /\ pen' = c

\* C20, as amended: a QuadTo from the pen a via b to c whose deviation
\* |a - 2b + c|^2 is at or above the tolerance gives LineTo exactly
\* n = 1 + floor(sqrt(sqrt(3 * deviation))) segments: the n-1 points of
\* the curve at the parameters i/n, i = 1..n-1 in increasing order, by
\* repeated linear interpolation, and then the end point c itself.
QuadToCutsRoot ==
    [][(PathCmd[1] = "QuadTo"
          /\ AtTolerance(Deviation(pen, PathCmd[2], PathCmd[3]))) =>
          QuadToEmits(1 + RootDown(Deviation(pen, PathCmd[2], PathCmd[3])),
                      pen, PathCmd[2], PathCmd[3])]_vars

\* C20, as claimed: the number of segments is
\* n = 1 + ceil(sqrt(sqrt(3 * deviation))).
QuadToRoundsRootUp ==
    [][(PathCmd[1] = "QuadTo"
          /\ AtTolerance(Deviation(pen, PathCmd[2], PathCmd[3]))) =>
          QuadToEmits(1 + RootUp(Deviation(pen, PathCmd[2], PathCmd[3])),
                      pen, PathCmd[2], PathCmd[3])]_vars

\* QuadTo has drawn a curve in four segments, with three points between
\* its ends.
DrewCurveInFour ==
    /\ script.kind = "quad"
    /\ call.op = "QuadTo"
    /\ AtTolerance(Deviation(call.a, script.cmds[script.pc - 1][2],
                             script.cmds[script.pc - 1][3]))
    /\ Len(call.lines) = 4
    /\ call.lines[1] # call.lines[2]
    /\ call.lines[2] # call.lines[3]
    /\ pen = call.lines[4]

\* Whether p is the point of the cubic curve from a via b and c to d at the
\* parameter i/n
IsCubicPoint(p, i, n, a, b, c, d) ==
    \A k \in 1..2 :
        n * n * n * p[k] =
            (n - i) * (n - i) * (n - i) * a[k]
            + 3 * i * (n - i) * (n - i) * b[k]
            + 3 * i * i * (n - i) * c[k]
            + i * i * i * d[k]

\* The deviation CubeTo uses for the curve from a via b and c to d, and the
\* number of segments QuadTo derives from a deviation
CubicDeviation(a, b, c, d) == Max2(Deviation(a, b, d), Deviation(a, c, d))
CountFor(dev) == IF AtTolerance(dev) THEN 1 + RootDown(dev) ELSE 1

\* C21: CubeTo(b, c, d) from the pen a takes the larger of the deviations
\* of a, b, d and of a, c, d, derives the number n of segments from it as
\* QuadTo does, gives LineTo the points of the cubic curve at i/n for
\* i = 1..n-1 and then d, and leaves the pen at d.
CubeToUsesLargerDeviation ==
    [][PathCmd[1] = "CubeTo" =>
          LET a == pen
              b == PathCmd[2]
              c == PathCmd[3]
              d == PathCmd[4]
              n == CountFor(CubicDeviation(a, b, c, d))
          IN /\ call'.op = "CubeTo"
             /\ Len(call'.lines) = n
             /\ nsegs' = nsegs + n
             /\ \A i \in 1..(n - 1) :
                   IsCubicPoint(call'.lines[i], i, n, a, b, c, d)
             /\ call'.lines[n] = d
             /\ bufF32' = LinesToZ(Z, call'.lines).bufF32
             /\ pen' = d
             /\ first' = first]_vars

\* CubeTo has drawn a curve whose second control point deviates more than
\* its first, and enough for more segments than the first alone gives.
DrewCubeBySecondControl ==
    /\ script.kind = "cube"
    /\ call.op = "CubeTo"
    /\ LET b == script.cmds[script.pc - 1][2]
           c == script.cmds[script.pc - 1][3]
           d == script.cmds[script.pc - 1][4]
       IN /\ Deviation(call.a, c, d) > Deviation(call.a, b, d)
          /\ Len(call.lines) > CountFor(Deviation(call.a, b, d))
          /\ Len(call.lines) = 4
          /\ pen = d

\* ---------------------------------------------------------------- C22

\* The calls the Rasterizer r has been given so far
CallsMade(r) == SubSeq(r.prog, 1, r.pc - 1)

\* The fields and the drawn pixels of a Rasterizer that is given the calls
\* ops, one after the other, and is the only one
RECURSIVE Alone(_, _)
Alone(st, ops) ==
    IF Len(ops) = 0 THEN st ELSE Alone(ApplyOp(st, Head(ops)), Tail(ops))

AloneFrom(r) ==
    Alone([z |-> NewRasterizer(r.size0[1], r.size0[2]), dst |-> <<>>],
          CallsMade(r))

\* The Rasterizer i is as it would be alone
AsAlone(i) ==
    LET r == rasterizers[i]
    IN /\ Load(heap, r) = AloneFrom(r).z
       /\ r.dst = AloneFrom(r).dst

\* A call on the Rasterizer i leaves the Rasterizer j and its arrays as
\* they were
LeavesOther(i, j) ==
    (rasterizers'[i] # rasterizers[i]) =>
        /\ rasterizers'[j] = rasterizers[j]
        /\ Load(heap', rasterizers'[j]) = Load(heap, rasterizers[j])

\* C22: two Rasterizers are independent.  However their calls are
\* interleaved, each has the fields and has drawn the pixels it would have
\* with its own calls alone, and no call on one changes the buffers, pen,
\* first point, size or operator of the other.
RasterizersAreIndependent ==
    /\ [](AsAlone(1) /\ AsAlone(2))
    /\ [][LeavesOther(1, 2) /\ LeavesOther(2, 1)]_vars

\* Both Rasterizers have drawn, the first of them after a Reset that gave
\* it a new buffer when the second already had its mask buffer, and with
\* coverage in both.
InterleavedTwo ==
    /\ Len(rasterizers) = 2
    /\ rasterizers[1].dst # <<>>
    /\ rasterizers[2].dst # <<>>
    /\ rasterizers[2].bufU32 > 0
    /\ rasterizers[1].bufF32 > rasterizers[2].bufU32
    /\ rasterizers[1].bufU32 > 0
    /\ rasterizers[2].pc > Len(rasterizers[2].prog)
    /\ rasterizers[1].size # rasterizers[2].size
    /\ \E k \in 1..Len(heap[rasterizers[2].bufF32]) :
          heap[rasterizers[2].bufF32][k] # 0

\* ---------------------------------------------------------------- C23

\* The bits the following nextBit calls return, in order, up to the first
\* error
RECURSIVE Pending(_)
Pending(b) ==
    LET nb == nextBit(b)
    IN IF nb.err # NoError THEN <<>> ELSE <<nb.bit>> \o Pending(nb.b)

\* The bits of the stream after the first n
StreamFrom(n) == SubSeq(bitReader.stream, n + 1, Len(bitReader.stream))

\* C23: a decode that meets an invalid code returns (0, errInvalidCode) and
\* leaves the bit reader where it was: the following nextBit calls return
\* the bits that were pending before the decode, which are the bits of the
\* stream not yet given out, wherever the code lies relative to the byte
\* and the 32-bit refills.
InvalidCodeIsUnread ==
    [][(bitReader'.out.op = "decode" /\ bitReader'.out.err = errInvalidCode)
          => /\ bitReader'.out.val = 0
             /\ bitReader'.consumed = bitReader.consumed
             /\ Pending(bitReader'.b) = Pending(bitReader.b)
             /\ Pending(bitReader'.b) = StreamFrom(bitReader.consumed)]_vars

\* A decode has met the invalid code across a 32-bit refill: the bits it
\* put back lie on top of bits of the refill.
UnreadAcrossRefill ==
    /\ bitReader # <<>>
    /\ bitReader.out.op = "decode"
    /\ bitReader.out.err = errInvalidCode
    /\ bitReader.b.nBits > nextBitMaxNBits + 1
    /\ bitReader.consumed = 4
    /\ bitReader.b.br = 4

\* ---------------------------------------------------------------- C29

\* C29: nextBit gives out the bits of the stream in order, each once (the
\* least significant bit of a byte first in LSB order, the most significant
\* first in MSB order), across 32-bit and one-byte refills; it returns the
\* error of the underlying reader only when every byte the reader returned
\* has been given out; and it leaves nBits at 31 or less when it found it
\* so.
NextBitDeliversInOrder ==
    [][bitReader'.out.op = "nextBit"
          => /\ bitReader'.out.err = NoError
                  => /\ bitReader.consumed < Len(bitReader.stream)
                     /\ bitReader'.out.bit
                            = bitReader.stream[bitReader.consumed + 1]
                     /\ bitReader'.consumed = bitReader.consumed + 1
             /\ bitReader'.out.err # NoError
                  => /\ bitReader'.out.err = "EOF"
                     /\ bitReader'.out.bit = 0
                     /\ bitReader.consumed = Len(bitReader.stream)
                     /\ Len(bitReader'.b.r.data) = 0
                     /\ bitReader'.b.br = bitReader'.b.bw
                     /\ bitReader'.b.nBits = 0
             /\ bitReader.b.nBits <= nextBitMaxNBits
                  => bitReader'.b.nBits <= nextBitMaxNBits]_vars

\* nextBit has returned the end of a stream in MSB order that came with
\* its five bytes in one Read and went through a 32-bit and a one-byte
\* refill.
ReachedEndInMSBOrder ==
    /\ bitReader # <<>>
    /\ bitReader.out.op = "nextBit"
    /\ bitReader.out.err = "EOF"
    /\ bitReader.b.order = MSB
    /\ bitReader.b.bw = 5
    /\ bitReader.b.br = 5
    /\ bitReader.consumed = 40
    /\ \E i \in 1..32 : bitReader.stream[i] # bitReader.stream[33 - i]


\* ---------------------------------------------------------------- C24

\* The call emits one LineTo, to the point e
EmitsOneLine(e) ==
    /\ call'.lines = <<e>>
    /\ nsegs' = nsegs + 1
    /\ bufF32' = LineToZ(Z, e).bufF32
    /\ pen' = e
    /\ first' = first

\* C24: below the tolerance (a deviation under 0.333) QuadTo, and CubeTo
\* with the larger of its two deviations, issue one LineTo, to the end
\* point, and no point between.
FlatCurveIsOneLine ==
    [][/\ (PathCmd[1] = "QuadTo"
              /\ ~AtTolerance(Deviation(pen, PathCmd[2], PathCmd[3])))
           => (call'.op = "QuadTo" /\ EmitsOneLine(PathCmd[3]))
       /\ (PathCmd[1] = "CubeTo"
              /\ ~AtTolerance(CubicDeviation(pen, PathCmd[2], PathCmd[3],
                                             PathCmd[4])))
           => (call'.op = "CubeTo" /\ EmitsOneLine(PathCmd[4]))]_vars

\* CubeTo has drawn a curve that deviates, but less than the tolerance,
\* as one line with coverage.
DrewFlatCurve ==
    /\ script.kind = "cube"
    /\ call.op = "CubeTo"
    /\ LET b == script.cmds[script.pc - 1][2]
           c == script.cmds[script.pc - 1][3]
           d == script.cmds[script.pc - 1][4]
       IN /\ CubicDeviation(call.a, b, c, d) > 0
          /\ ~AtTolerance(CubicDeviation(call.a, b, c, d))
          /\ call.lines = <<d>>
          /\ pen = d
          /\ d[2] # call.a[2]
    /\ \E i \in 1..lenF32 : bufF32[i] # 0


\* ---------------------------------------------------------------- C25

\* The coverage buffer of a Rasterizer wider by ClipMargin pixels on both
\* sides after the calls that draw the polygon vs, moved right by ClipMargin
\* pixels so that all of it lies in that buffer; and the coverage it gives
\* the place of the pixel p.
WideBuffer(vs) ==
    LET ws == Translate(vs, <<ClipMargin, 0>>)
    IN ClosePathZ(LinesToZ(MoveToZ(NewRasterizer(size[1] + 2 * ClipMargin,
                                                 size[2]), ws[1]),
                           Tail(ws))).bufF32
WideCovOf(vs, p) ==
    Coverage(WideBuffer(vs),
             p[2] * (size[1] + 2 * ClipMargin) + p[1] + ClipMargin + 1)

ClippedClosed == script.kind = "clipped" /\ script.pc > Len(PolyCmds(Poly))

\* C25: a closed contour that reaches beyond the left or the right edge of
\* the buffer gives every pixel of the buffer the coverage the whole
\* contour gives it in a buffer wide enough to hold it, and the buffer
\* keeps its width * height entries: no entry stands for a column outside
\* [0, width).
ClippingKeepsCoverage ==
    ClippedClosed =>
        /\ \A p \in Pixels : CovOf(p) = WideCovOf(Poly, p)
        /\ Len(bufF32) = size[1] * size[2]
        /\ lenF32 = size[1] * size[2]

\* A triangle with a slanted edge that crosses the left or the right edge
\* of the buffer has been drawn, with pixels covered in part.
DrewAcrossEdge ==
    /\ ClippedClosed
    /\ Drawn
    /\ Len(Poly) = 3
    /\ PolyMinX < 0 \/ PolyMaxX > ContourW * Unit
    /\ \E p \in Pixels : 0 < CovOf(p) /\ CovOf(p) < AreaUnit
    /\ \E p \in Pixels : CovOf(p) = AreaUnit


\* ---------------------------------------------------------------- C26

\* C26, as claimed: for every rectangle r, also one wider or higher than
\* the Rasterizer, Draw on the general path does not panic, composites the
\* pixel (r.Min.X + x, r.Min.Y + y) with the mask value of the pixel (x, y)
\* where the Rasterizer has one, and leaves the pixels of r beyond the
\* Rasterizer's bounds as they were.
MaskIsReadByPixel ==
    (Drawn /\ ~FastPath(call.dst0, call.src)) =>
        /\ ~panicked
        /\ \A p \in DrawnPixels :
              LET d == At(call.dst0, call.r[1] + p[1], call.r[2] + p[2])
              IN IF p[1] < size[1] /\ p[2] < size[2]
                 THEN HoldsColour(p, IF DrawOp = Over
                                     THEN SourceOver(call.src, d,
                                                     MaskOf(p[1], p[2]))
                                     ELSE SourceCopy(call.src,
                                                     MaskOf(p[1], p[2])))
                 ELSE HoldsColour(p, d)


\* ---------------------------------------------------------------- C27

\* The calls made so far that are not Draw calls, and a new Rasterizer
\* after them
RECURSIVE PathCalls(_)
PathCalls(cmds) ==
    IF Len(cmds) = 0 THEN <<>>
    ELSE IF Head(cmds)[1] = "Draw" THEN PathCalls(Tail(cmds))
    ELSE <<Head(cmds)>> \o PathCalls(Tail(cmds))
PathAlone ==
    Alone([z |-> NewRasterizer(ContourW, ContourH), dst |-> <<>>],
          PathCalls(SubSeq(script.cmds, 1, script.pc - 1))).z

\* C27: Draw leaves the path as it is: the coverage buffer, the pen, the
\* first point, the size and the operator are the same after it, nothing
\* is cleared and the contour is not closed.  So a second Draw onto an
\* equal destination gives the same pixels, and the segments added after a
\* Draw add to the coverage of those before it: the buffer and every Draw
\* are those of the path's calls without the Draw calls before.
DrawKeepsPath ==
    /\ [][PathCmd[1] = "Draw" =>
             /\ call'.op = "Draw"
             /\ bufF32' = bufF32 /\ lenF32' = lenF32
             /\ pen' = pen /\ first' = first
             /\ size' = size /\ DrawOp' = DrawOp
             /\ nsegs' = nsegs
             /\ (call.op = "Draw" /\ script.cmds[script.pc - 1] = PathCmd)
                    => call'.dst = call.dst]_vars
    /\ [](script.kind = "redraw" =>
             /\ bufF32 = PathAlone.bufF32
             /\ pen = PathAlone.pen /\ first = PathAlone.first
             /\ DrawOp = PathAlone.DrawOp
             /\ Drawn => call.dst = DrawZ(PathAlone, call.dst0, call.r,
                                          call.src).dst)

\* Draw has been called a second time on an open contour with coverage, on
\* the path the first Draw took, and a third time after one more segment
\* that changed the coverage.
DrewAgain ==
    /\ script.kind = "redraw"
    /\ script.pc > Len(script.cmds)
    /\ Drawn
    /\ script.cmds[script.pc - 3][1] = "Draw"
    /\ script.cmds[script.pc - 3][2] = script.cmds[script.pc - 4][2]
    /\ pen # first
    /\ \E i \in 1..lenF32 :
          bufF32[i] # 0
          /\ bufF32[i] # LineToZ(MoveToZ(NewRasterizer(ContourW, ContourH),
                                         first),
                                 script.cmds[script.pc - 5][2]).bufF32[i]
    /\ \E p \in Pixels : Drew(p) > 0


\* ---------------------------------------------------------------- C28

\* Whether the sum q*65535 + r fits 32 bits
Fits32(p) == p[1] < 65537 \/ (p[1] = 65537 /\ p[2] = 0)

\* C28: in source-over with premultiplied colours (every channel at most
\* the alpha, the alpha at most 0xffff) and a mask value of at most 0xffff,
\* no sum d*a + s*ma exceeds 32 bits, every channel of the result is at
\* most 0xffff before it is converted to uint16, and the result is
\* premultiplied.
SourceOverStaysInRange ==
    call.op = "OverPixel" =>
        \A c \in 1..4 :
            /\ Fits32(call.sums[c])
            /\ call.sums[c][1] <= 65535
            /\ call.out[c] = call.sums[c][1]
            /\ 0 <= call.out[c]
            /\ call.out[c] <= 65535
            /\ call.out[c] <= call.out[4]

\* An opaque source has been composited through a half mask onto an
\* opaque pixel: the alpha's sum is 0xffff * 0xffff, the largest there is.
CompositedToFull ==
    /\ call.op = "OverPixel"
    /\ script.ma = 32768
    /\ script.s[4] = 65535
    /\ script.d[4] = 65535
    /\ script.s[1] < script.d[1]
    /\ call.sums[4] = <<65535, 0>>
    /\ call.out[1] < call.out[4]

\* ---------------------------------------------------------------- C30

\* What the next instruction is: an operand that parses, or an operator of
\* the tables
NextNumber == parseNumber(cffParser.instructions)
NextIsOperand == NextNumber.res = prGood
NextIsOperator ==
    /\ NextNumber.res = prNone
    /\ NextOperator(cffParser.instructions).known
NextOp == NextOperator(cffParser.instructions).op

\* C30: the depth of the Top DICT interpreter's stack is between 0 and 48
\* after every step.  An operand for a full stack sets errInvalidCFFTable
\* and writes nothing; an operator that needs more operands than there are
\* sets errInvalidCFFTable and pops nothing; an array or delta operator
\* leaves the stack empty; every other operator pops its operands.
StackStaysInBounds ==
    [][/\ cffParser'.top >= 0
       /\ cffParser'.top <= psStackSize
       /\ ~cffParser'.panicked
       /\ Len(cffParser'.a) = psStackSize
       /\ NextIsOperand =>
             IF cffParser.top = psStackSize
             THEN /\ cffParser'.err = errInvalidCFFTable
                  /\ cffParser'.a = cffParser.a
                  /\ cffParser'.top = cffParser.top
             ELSE /\ cffParser'.err = NoError
                  /\ cffParser'.top = cffParser.top + 1
                  /\ cffParser'.a =
                        [cffParser.a EXCEPT ![cffParser.top + 1] =
                                                NextNumber.number]
       /\ NextIsOperator =>
             /\ cffParser'.a = cffParser.a
             /\ IF cffParser.top < NextOp.numPop
                THEN /\ cffParser'.err = errInvalidCFFTable
                     /\ cffParser'.top = cffParser.top
                ELSE /\ cffParser'.err = NoError
                     /\ cffParser'.top =
                           IF NextOp.numPop < 0 THEN 0
                           ELSE cffParser.top - NextOp.numPop]_vars

\* An operand has met the full stack: the error is set with 48 operands in
\* place, the last of them the one pushed last.
PushedOntoFullStack ==
    /\ cffParser # <<>>
    /\ cffParser.top = psStackSize
    /\ cffParser.err = errInvalidCFFTable
    /\ cffParser.a[psStackSize] # 0
    /\ cffParser.a[3] = -2147483647 - 1

====
